---- MODULE Spec2Model ----
(***************************************************************************)
(* Model of razorpay-to-sheets: razorpay_to_sheets.py (the sync script)    *)
(* and extract_partial_payments.py (the report script), both working on    *)
(* one Google spreadsheet.                                                 *)
(*                                                                         *)
(* Values.  A JSON value of the Razorpay response, a cell of a worksheet   *)
(* and a cell of a DataFrame are tagged records [k |-> <kind>, ...]:       *)
(*   "int" n, "str" s, "null", "bool" b, "dict" f, "list" l                *)
(*   "float" u c : the Python float u + c/100 (0 <= c < 100)               *)
(*   "iso" n     : the ISO-8601 text datetime.isoformat() gives for n      *)
(*   "nan"       : pandas' not-a-number                                    *)
(***************************************************************************)
EXTENDS Integers, Sequences, FiniteSets, TLC

(***************************************************************************)
(* Bounds of the model.                                                    *)
(***************************************************************************)
MaxRemote == 203     \* largest homogeneous remote collection
MaxBatch == 3        \* longest remote collection of arbitrary records
MaxStale == 2        \* most rows a worksheet holds from an earlier run
MaxTable == 3        \* most data rows of the first worksheet in a report run
MaxHeader == 4       \* most columns after ID of a worksheet with renamed columns
MaxRenamed == 2      \* most data rows of a worksheet with renamed columns
MaxOther == 2        \* most data rows of the table of a second, concurrent run
MaxCol == 710        \* largest column number given to col_num_to_letter
MaxChanges == 3      \* most changes of the remote collection during one fetch
MaxCoerced == 2      \* most data rows of a worksheet with cells that are no numbers
MaxFields == 2       \* most fields set, or most fields absent, in a payment link
                     \* given to the normalizer alone

(***************************************************************************)
(* JSON values.                                                            *)
(***************************************************************************)
JInt(n) == [k |-> "int", n |-> n]
JStr(s) == [k |-> "str", s |-> s]
JNull == [k |-> "null"]
JBool(b) == [k |-> "bool", b |-> b]
JDict(f) == [k |-> "dict", f |-> f]
JList(l) == [k |-> "list", l |-> l]
JFloat(u, c) == [k |-> "float", u |-> u, c |-> c]
Iso(n) == [k |-> "iso", n |-> n]

\* the dict with no key
EmptyMap == [x \in {} |-> JNull]

\* Python truthiness: bool(v)
Truthy(v) ==
    CASE v.k = "int" -> v.n # 0
      [] v.k = "str" -> v.s # ""
      [] v.k = "null" -> FALSE
      [] v.k = "bool" -> v.b
      [] v.k = "dict" -> DOMAIN v.f # {}
      [] v.k = "list" -> Len(v.l) > 0
      [] v.k = "float" -> ~(v.u = 0 /\ v.c = 0)
      [] OTHER -> TRUE

\* dict.get(key, default) on a value known to be a dict
Get(d, key, default) == IF key \in DOMAIN d.f THEN d.f[key] ELSE default

(***************************************************************************)
(* razorpay_to_sheets.py: the record normalizer.                           *)
(***************************************************************************)

\* float(v) succeeds.  The strings of the model are not numerals, so
\* float() of a string is a ValueError; float(None), float of a dict or of
\* a list is a TypeError.
FloatOk(v) == v.k \in {"int", "bool", "float"}

\* mutant: the amount kept in minor units
DivBy100_Minor(v) ==
    LET n == IF v.k = "int" THEN v.n ELSE IF v.k = "bool" /\ v.b THEN 1 ELSE 0
    IN  IF v.k = "float" THEN v ELSE JFloat(n, 0)

\* float(v) / 100 for an integer (or bool) v: the float u + c/100
DivBy100(v) ==
    LET n == IF v.k = "int" THEN v.n ELSE IF v.k = "bool" /\ v.b THEN 1 ELSE 0
    IN  IF v.k = "float" THEN v ELSE JFloat(n \div 100, n % 100)

\* mutant: only None is tested, 0 is rendered as the epoch
format_timestamp_Epoch(timestamp) ==
    IF timestamp.k = "null" THEN JStr("")
    ELSE IF timestamp.k = "int" THEN Iso(timestamp.n)
    ELSE IF timestamp.k = "bool" THEN Iso(1)
    ELSE JStr("")

\* format_timestamp(timestamp): "" for a falsy value and for a value
\* datetime.fromtimestamp rejects (TypeError is caught), the ISO text else
format_timestamp(timestamp) ==
    IF ~Truthy(timestamp) THEN JStr("")
    ELSE IF timestamp.k = "int" THEN Iso(timestamp.n)
    ELSE IF timestamp.k = "bool" THEN Iso(1)
    ELSE JStr("")

\* str(v), kept as the value it renders
Repr(v) == IF v.k = "str" THEN v ELSE [k |-> "repr", v |-> v]

\* sep.join(parts): "" when there is no part
Join(sep, parts) ==
    IF Len(parts) = 0 THEN JStr("") ELSE [k |-> "joined", sep |-> sep, l |-> parts]

header ==
    << "ID", "Created At (UTC)", "Updated At (UTC)", "Amount (₹)", "Amount Paid (₹)",
       "Status", "Currency", "Description", "Reference ID", "Short URL",
       "UPI Link", "WhatsApp Link", "Accept Partial", "First Min Partial Amount (₹)",
       "Customer Email", "Customer Contact", "Order ID", "User ID",
       "Cancelled At (UTC)", "Expire By (UTC)", "Expired At (UTC)",
       "Reminder Enable", "Reminder Status", "Payments Count",
       "Payments Details", "Notes" >>

\* the header row as worksheet cells
HeaderRow == [i \in 1..Len(header) |-> JStr(header[i])]

YesNo(v) == IF Truthy(v) THEN JStr("Yes") ELSE JStr("No")

\* the payments value after "payments = [] if payments is None else payments"
PaymentsOf(link) ==
    LET p == Get(link, "payments", JList(<<>>))
    IN  IF p.k = "null" THEN JList(<<>>) ELSE p

\* len(payments) and the iteration over payments raise nothing
PaymentsOk(p) ==
    CASE p.k = "list" -> \A i \in 1..Len(p.l) :
                            /\ p.l[i].k = "dict"
                            /\ FloatOk(Get(p.l[i], "amount", JInt(0)))
      [] p.k = "dict" -> DOMAIN p.f = {}
      [] p.k = "str" -> p.s = ""
      [] OTHER -> FALSE

\* one entry of payment_details (the f-string of line 309)
PaymentDetail(payment) ==
    [ payment_id |-> Get(payment, "payment_id", JStr("")),
      amount |-> DivBy100(Get(payment, "amount", JInt(0))),
      method |-> Get(payment, "method", JStr("")),
      status |-> Get(payment, "status", JStr("")),
      created |-> format_timestamp(Get(payment, "created_at", JNull)) ]

\* the body of the try block runs to the end for this link
NormalizeOk(link) ==
    /\ link.k = "dict"
    /\ FloatOk(Get(link, "amount", JInt(0)))
    /\ FloatOk(Get(link, "amount_paid", JInt(0)))
    /\ FloatOk(Get(link, "first_min_partial_amount", JInt(0)))
    /\ LET customer == Get(link, "customer", JDict(EmptyMap))
       IN  Truthy(customer) => customer.k = "dict"
    /\ PaymentsOk(PaymentsOf(link))
    /\ Get(link, "status", JStr("unknown")).k \notin {"dict", "list"}

\* the row the try block appends for a link it accepts
NormalizeRow(link) ==
    LET customer == Get(link, "customer", JDict(EmptyMap))
        reminders == Get(link, "reminders", JDict(EmptyMap))
        payments == PaymentsOf(link)
        notes == Get(link, "notes", JList(<<>>))
        details == IF payments.k = "list"
                   THEN [i \in 1..Len(payments.l) |-> PaymentDetail(payments.l[i])]
                   ELSE <<>>
    IN  << Get(link, "id", JStr("")),
           format_timestamp(Get(link, "created_at", JNull)),
           format_timestamp(Get(link, "updated_at", JNull)),
           DivBy100(Get(link, "amount", JInt(0))),
           DivBy100(Get(link, "amount_paid", JInt(0))),
           Get(link, "status", JStr("unknown")),
           Get(link, "currency", JStr("")),
           Get(link, "description", JStr("")),
           Get(link, "reference_id", JStr("")),
           Get(link, "short_url", JStr("")),
           YesNo(Get(link, "upi_link", JBool(FALSE))),
           YesNo(Get(link, "whatsapp_link", JBool(FALSE))),
           YesNo(Get(link, "accept_partial", JBool(FALSE))),
           DivBy100(Get(link, "first_min_partial_amount", JInt(0))),
           IF Truthy(customer) THEN Get(customer, "email", JStr("")) ELSE JStr(""),
           IF Truthy(customer) THEN Get(customer, "contact", JStr("")) ELSE JStr(""),
           Get(link, "order_id", JStr("")),
           Get(link, "user_id", JStr("")),
           format_timestamp(Get(link, "cancelled_at", JNull)),
           format_timestamp(Get(link, "expire_by", JNull)),
           format_timestamp(Get(link, "expired_at", JNull)),
           YesNo(Get(link, "reminder_enable", JBool(FALSE))),
           IF ~Truthy(reminders) THEN JStr("")
           ELSE IF reminders.k = "dict" THEN Get(reminders, "status", JStr(""))
           ELSE Repr(reminders),
           JInt(IF payments.k = "list" THEN Len(payments.l) ELSE 0),
           Join(" | ", details),
           IF ~Truthy(notes) THEN JStr("")
           ELSE IF notes.k = "list" THEN Join(", ", notes.l)
           ELSE Repr(notes) >>

\* the except block of the loop: its log line calls link.get('id', ...),
\* which itself raises when the link is not a dict
HandlerOk(link) == link.k = "dict"

\* one iteration of the for loop of process_payment_links on links[i]; acc
\* is [raised, data, skipped]: raised is set when an exception leaves the
\* loop
ProcessOne(links, i, acc) ==
    IF NormalizeOk(links[i])
    THEN [acc EXCEPT !.data = Append(@, NormalizeRow(links[i]))]
    ELSE IF HandlerOk(links[i])
         THEN [acc EXCEPT !.skipped = @ + 1]
         ELSE [acc EXCEPT !.raised = TRUE]

\* the iterations lo..hi of the loop, in order, stopping at the first one
\* that raises (evaluated by halves to keep the evaluation shallow)
RECURSIVE ProcessFrom(_, _, _, _)
ProcessFrom(links, lo, hi, acc) ==
    IF lo > hi \/ acc.raised THEN acc
    ELSE IF lo = hi THEN ProcessOne(links, lo, acc)
    ELSE LET mid == (lo + hi) \div 2
         IN  ProcessFrom(links, mid + 1, hi, ProcessFrom(links, lo, mid, acc))

\* process_payment_links(links): [raised, data, skipped]
process_payment_links(links) ==
    ProcessFrom(links, 1, Len(links),
                [raised |-> FALSE, data |-> <<HeaderRow>>, skipped |-> 0])

(***************************************************************************)
(* The spreadsheet.  A worksheet is its grid of values: a sequence of      *)
(* rows, each a sequence of cells; the empty sequence is a worksheet with  *)
(* no value.                                                               *)
(***************************************************************************)
Max(a, b) == IF a >= b THEN a ELSE b
Min(a, b) == IF a <= b THEN a ELSE b

\* mutant: the worksheet is not cleared
ClearGrid_Keep(grid) == grid

\* worksheet.clear()
ClearGrid(grid) == <<>>

\* worksheet.update(range, values) with the range starting at row top,
\* column A: the cells of the range take the new values, every other cell
\* keeps its value
WriteRange(grid, top, values) ==
    LET n == Max(Len(grid), top + Len(values) - 1)
        old(r) == IF r <= Len(grid) THEN grid[r] ELSE <<>>
    IN  [r \in 1..n |->
            IF r >= top /\ r < top + Len(values)
            THEN values[r - top + 1]
                   \o SubSeq(old(r), Len(values[r - top + 1]) + 1, Len(old(r)))
            ELSE old(r)]

\* the letters chr(65) .. chr(90)
Alphabet ==
    << "A", "B", "C", "D", "E", "F", "G", "H", "I", "J", "K", "L", "M", "N", "O", "P",
       "Q", "R", "S", "T", "U", "V", "W", "X", "Y", "Z" >>

\* mutant: plain base 26, n divided by 26 without the n - 1
RECURSIVE col_num_to_letter_Plain(_)
col_num_to_letter_Plain(n) ==
    IF n <= 0 THEN <<>>
    ELSE col_num_to_letter_Plain(n \div 26) \o << Alphabet[(n % 26) + 1] >>

\* update_google_sheet, lines 420-425: while n > 0, divmod(n - 1, 26) and
\* the letter of the remainder put in front of the result
RECURSIVE col_num_to_letter(_)
col_num_to_letter(n) ==
    IF n <= 0 THEN <<>>
    ELSE col_num_to_letter((n - 1) \div 26) \o << Alphabet[((n - 1) % 26) + 1] >>

(***************************************************************************)
(* The remote collection and the inputs of a run.                          *)
(***************************************************************************)
count == 100

PlinkId(i) == JStr(ToString(i))

\* a payment link as the API returns it, in four shapes: every field set,
\* only the id set, an amount of null, and a value that is not an object
\* (the bare id string)
SampleLink(shape, i) ==
    CASE shape = "full" ->
           JDict([f \in {"id", "created_at", "updated_at", "amount", "amount_paid",
                         "status", "currency", "reference_id", "customer",
                         "accept_partial", "payments", "notes", "expired_at"} |->
                   CASE f = "id" -> PlinkId(i)
                     [] f = "created_at" -> JInt(1700000000 + i)
                     [] f = "updated_at" -> JInt(1700000500 + i)
                     [] f = "amount" -> JInt(150000)
                     [] f = "amount_paid" -> JInt(50000)
                     [] f = "status" -> JStr("created")
                     [] f = "currency" -> JStr("INR")
                     [] f = "reference_id" -> JStr("July-batch")
                     [] f = "customer" ->
                          JDict([g \in {"email"} |-> JStr("a@example.com")])
                     [] f = "accept_partial" -> JBool(TRUE)
                     [] f = "payments" ->
                          JList(<< JDict([g \in {"payment_id", "amount", "method",
                                                 "status", "created_at"} |->
                                           CASE g = "payment_id" -> JStr("pay_1")
                                             [] g = "amount" -> JInt(50000)
                                             [] g = "method" -> JStr("upi")
                                             [] g = "status" -> JStr("captured")
                                             [] g = "created_at" -> JInt(1700000100)]) >>)
                     [] f = "notes" -> JDict([g \in {"course"} |-> JStr("maths")])
                     [] f = "expired_at" -> JInt(0)])
      [] shape = "bare" -> JDict([f \in {"id"} |-> PlinkId(i)])
      [] shape = "badamount" ->
           JDict([f \in {"id", "amount"} |->
                   IF f = "id" THEN PlinkId(i) ELSE JNull])
      [] OTHER -> PlinkId(i)

Shapes == {"full", "bare", "badamount", "notdict"}

\* the remote collections a run is checked on: every sequence of at most
\* MaxBatch links of the four shapes, and the collections of N links with
\* only an id, N up to MaxRemote
SmallRemotes ==
    UNION { { [i \in 1..n |-> SampleLink(sh[i], i)] : sh \in [1..n -> Shapes] }
            : n \in 0..MaxBatch }
BigRemotes == { [i \in 1..n |-> SampleLink("bare", i)] : n \in 0..MaxRemote }

\* what the first worksheet holds from an earlier run: nothing, or the
\* header and k >= 1 older rows (every second one with a hand-written cell to
\* the right of the table)
StaleRow(j) ==
    IF j % 2 = 1 THEN Append(NormalizeRow(SampleLink("full", 900 + j)), JStr("checked"))
    ELSE NormalizeRow(SampleLink("bare", 900 + j))
StaleSheet(k) == IF k = 0 THEN <<>> ELSE <<HeaderRow>> \o [j \in 1..k |-> StaleRow(j)]
StaleSheets == { StaleSheet(k) : k \in 0..MaxStale }

\* GET /payment_links?count=c&skip=s on a collection
Page(coll, s, c) == SubSeq(coll, s + 1, Min(s + c, Len(coll)))

ProbeOutcomes == {"ok", "missing_key", "non200", "nofield", "exception"}
PageOutcomes == {"ok", "non200", "nofield", "exception"}

(***************************************************************************)
(* State.                                                                  *)
(***************************************************************************)
VARIABLES
    remote,          \* the payment links of the Razorpay account
    sheet1,          \* grid of the first worksheet of the spreadsheet
    sheet0,          \* history: the grid of the first worksheet at the start
    pc,              \* position of the sync script
    probes,          \* probe requests (count=1) the API has received
    probe_outcome,   \* "none", or the outcome of validate_razorpay_credentials
    page_log,        \* [skip, outcome] of every page request the API received
    skip,            \* fetch_all_payment_links: skip
    request_count,   \* fetch_all_payment_links: request_count
    all_links,       \* fetch_all_payment_links: all_links
    fetch_result,    \* "none", "returned" or "raised"
    payment_links,   \* main: payment_links
    process_result,  \* "none", "returned" or "raised"
    process_errors,  \* records process_payment_links has logged as skipped
    processed_data,  \* main: processed_data
    exit_status,     \* "none", "0", "1", or "uncaught" (traceback)
    stages,          \* the stages the run has entered, in order
    tab_exists,      \* the spreadsheet has a worksheet named 'Partial Payments'
    tab_grid,        \* grid of that worksheet
    tab0,            \* history: [exists, grid] of that worksheet at the start
    rpc,             \* position of the report script
    extract_result,  \* "none", "returned" or "raised"
    extract_error,   \* the exception extract_partial_payments raised
    partial_payments,\* main of the report script: partial_payments
    reapply_result,  \* "none", "returned" or "raised": a second extraction,
                     \* on a worksheet holding the output of the first one
    reapplied,       \* the frame the second extraction returned
    summary,         \* main of the report script: summary
    email_sent,      \* main of the report script: email_sent
    warned,          \* the WARNING line of main about the email was printed
    other_pc,        \* a second run on the same worksheet: "idle" when there is
                     \* none, else the call of its tab replacement it is about
                     \* to make, or "done"
    other_table,     \* the table the second run writes
    other_wrote_last, \* the last write of the second run came after the last
                     \* write of the first
    csv_file,        \* rows of partial_payments.csv, <<>> when not written
    rexit_status,    \* "none", "0" or "1": what main of the report script returned
    num_cols,        \* update_google_sheet: the argument of col_num_to_letter
    last_col_letter, \* update_google_sheet: its result, a sequence of letters
    inserted,        \* history: the links created in the account between two
                     \* page requests of the run
    removed          \* history: the links taken out of it between two page
                     \* requests of the run

syncVars == << pc, probes, probe_outcome, page_log, skip, request_count,
               all_links, fetch_result, payment_links, process_result,
               process_errors, processed_data, exit_status, stages >>
reportVars == << tab_exists, tab_grid, tab0, rpc, extract_result, extract_error, partial_payments,
                 reapply_result, reapplied, summary, email_sent, warned, csv_file, rexit_status >>
raceVars == << other_pc, other_table, other_wrote_last >>

colVars == << num_cols, last_col_letter >>

changeVars == << inserted, removed >>

vars == << remote, sheet1, sheet0, syncVars, reportVars, raceVars, colVars, changeVars >>

(***************************************************************************)
(* razorpay_to_sheets.py: main.                                            *)
(***************************************************************************)
InitSync ==
    /\ pc = "parse_args"
    /\ probes = 0
    /\ probe_outcome = "none"
    /\ page_log = <<>>
    /\ skip = 0
    /\ request_count = 0
    /\ all_links = <<>>
    /\ fetch_result = "none"
    /\ payment_links = <<>>
    /\ process_result = "none"
    /\ process_errors = 0
    /\ processed_data = <<>>
    /\ exit_status = "none"
    /\ stages = <<>>

\* the collection of the account does not change during the run
NoChange ==
    /\ inserted = {}
    /\ removed = {}

\* col_num_to_letter not called
NoColumn ==
    /\ num_cols = 0
    /\ last_col_letter = <<>>

\* no second run
NoOtherRun ==
    /\ other_pc = "idle"
    /\ other_table = <<>>
    /\ other_wrote_last = FALSE

\* a frame with no column and no row
NoFrame == [columns |-> <<>>, rows |-> <<>>]

\* no exception, and an exception other than the ValueError of line 128
NoError == [kind |-> "none", missing |-> <<>>, available |-> <<>>]
OtherError == [kind |-> "other", missing |-> <<>>, available |-> <<>>]

NoSummary ==
    LET none == [count |-> 0, amount |-> JFloat(0, 0)]
    IN  [total |-> none, july |-> none, other |-> none, by_currency |-> <<>>]

\* the report script before its start
InitReport ==
    /\ rpc = "parse_args"
    /\ extract_result = "none"
    /\ extract_error = NoError
    /\ partial_payments = NoFrame
    /\ reapply_result = "none"
    /\ reapplied = NoFrame
    /\ summary = NoSummary
    /\ email_sent = FALSE
    /\ warned = FALSE
    /\ csv_file = <<>>
    /\ rexit_status = "none"

Init ==
    /\ NoOtherRun
    /\ NoColumn
    /\ NoChange
    /\ \/ remote \in SmallRemotes /\ sheet1 \in StaleSheets
       \/ remote \in BigRemotes /\ sheet1 = StaleSheet(MaxStale)
    /\ sheet0 = sheet1
    /\ tab_exists = FALSE
    /\ tab_grid = <<>>
    /\ tab0 = [exists |-> tab_exists, grid |-> tab_grid]
    /\ InitSync
    /\ InitReport

\* mutant: the error is logged and the run goes on
Return1_LogOnly ==
    /\ exit_status' = "1"
    /\ UNCHANGED pc

\* the except clause of main: log the error, return 1
Return1 ==
    /\ pc' = "exit"
    /\ exit_status' = "1"

\* main up to the try block: parse the arguments, convert the dates; an
\* unparsable date raises ValueError outside the try block
ParseArgs ==
    /\ pc = "parse_args"
    /\ \E dates \in {"none", "valid", "invalid"} :
         IF dates = "invalid"
         THEN /\ pc' = "exit"
              /\ exit_status' = "uncaught"
         ELSE /\ pc' = "validate"
              /\ UNCHANGED exit_status
    /\ UNCHANGED << reportVars, raceVars, colVars, changeVars, remote, sheet1, sheet0, probes, probe_outcome, page_log, skip,
                    request_count, all_links, fetch_result, payment_links,
                    process_result, process_errors, processed_data, stages >>

\* validate_razorpay_credentials sends the probe request: both keys are set
ProbeSent(o) == o # "missing_key"

\* mutant: the probe passes on any 200 response
ProbePasses_Any200(o) == o \in {"ok", "nofield"}

\* validate_razorpay_credentials returns True: status 200 and a body with
\* the 'payment_links' key
ProbePasses(o) == o = "ok"

\* fetch_all_payment_links, lines 142-153: the pre-flight probe
Validate ==
    /\ pc = "validate"
    /\ stages' = Append(stages, "validate")
    /\ \E o \in ProbeOutcomes :
         /\ probe_outcome' = o
         /\ probes' = IF ProbeSent(o) THEN probes + 1 ELSE probes
         /\ IF ProbePasses(o)
            THEN /\ pc' = "page"
                 /\ UNCHANGED << exit_status, fetch_result >>
            ELSE /\ fetch_result' = "raised"
                 /\ Return1
    /\ UNCHANGED << reportVars, raceVars, colVars, changeVars, remote, sheet1, sheet0, page_log, skip, request_count, all_links,
                    payment_links, process_result, process_errors,
                    processed_data >>

\* mutant: the status of the response is not looked at
PageFails_ExceptionOnly(o) == o = "exception"

\* the page request raises: a status other than 200 (line 174) or an
\* exception of requests.get or response.json
PageFails(o) == o \in {"non200", "exception"}

\* mutant: the loop ends on a full page too
EndOfStream_AtMost(item_count, c) == item_count <= c

\* mutant: the loop ends on the first empty page only
EndOfStream_Empty(item_count, c) == item_count = 0

\* line 194: the response is the last page
EndOfStream(item_count, c) == item_count < c

\* one iteration of the while loop of fetch_all_payment_links
FetchPage ==
    /\ pc = "page"
    /\ request_count' = request_count + 1
    /\ stages' = IF request_count = 0 THEN Append(stages, "fetch") ELSE stages
    /\ \E o \in PageOutcomes :
         /\ page_log' = Append(page_log, [skip |-> skip, outcome |-> o])
         /\ IF PageFails(o)
            THEN /\ fetch_result' = "raised"
                 /\ Return1
                 /\ UNCHANGED << skip, all_links, payment_links >>
            ELSE LET links == IF o = "ok" THEN Page(remote, skip, count) ELSE <<>>
                 IN  /\ all_links' = all_links \o links
                     /\ IF EndOfStream(Len(links), count)
                        THEN /\ fetch_result' = "returned"
                             /\ payment_links' = all_links'
                             /\ pc' = "process"
                             /\ UNCHANGED skip
                        ELSE /\ skip' = skip + count
                             /\ UNCHANGED << fetch_result, payment_links, pc >>
                     /\ UNCHANGED exit_status
    /\ UNCHANGED << reportVars, raceVars, colVars, changeVars, remote, sheet1, sheet0, probes, probe_outcome, process_result,
                    process_errors, processed_data >>

\* main, line 486: process_payment_links(payment_links)
Process ==
    /\ pc = "process"
    /\ stages' = Append(stages, "normalize")
    /\ LET r == process_payment_links(payment_links)
       IN  IF r.raised
           THEN /\ process_result' = "raised"
                /\ process_errors' = r.skipped
                /\ Return1
                /\ UNCHANGED processed_data
           ELSE /\ process_result' = "returned"
                /\ process_errors' = r.skipped
                /\ processed_data' = r.data
                /\ pc' = "open_sheet"
                /\ UNCHANGED exit_status
    /\ UNCHANGED << reportVars, raceVars, colVars, changeVars, remote, sheet1, sheet0, probes, probe_outcome, page_log, skip,
                    request_count, all_links, fetch_result, payment_links >>

\* update_google_sheet, lines 373-407: the checks of the configuration,
\* the authentication and the opening of the first worksheet
OpenSheet ==
    /\ pc = "open_sheet"
    /\ stages' = Append(stages, "push")
    /\ \E ok \in BOOLEAN :
         IF ok THEN pc' = "clear" /\ UNCHANGED exit_status
         ELSE Return1
    /\ UNCHANGED << reportVars, raceVars, colVars, changeVars, remote, sheet1, sheet0, probes, probe_outcome, page_log, skip,
                    request_count, all_links, fetch_result, payment_links,
                    process_result, process_errors, processed_data >>

\* update_google_sheet, line 411: worksheet.clear()
Clear ==
    /\ pc = "clear"
    /\ \E ok \in BOOLEAN :
         IF ok THEN /\ sheet1' = ClearGrid(sheet1)
                    /\ pc' = "update"
                    /\ UNCHANGED exit_status
         ELSE /\ Return1
              /\ UNCHANGED sheet1
    /\ UNCHANGED << reportVars, raceVars, colVars, changeVars, remote, sheet0, probes, probe_outcome, page_log, skip, request_count,
                    all_links, fetch_result, payment_links, process_result,
                    process_errors, processed_data, stages >>

\* update_google_sheet, lines 415-438: one update of the range A1:<col><rows>
Update ==
    /\ pc = "update"
    /\ \E ok \in BOOLEAN :
         IF ok THEN /\ sheet1' = IF Len(processed_data) > 0
                                 THEN WriteRange(sheet1, 1, processed_data)
                                 ELSE sheet1
                    /\ pc' = "exit"
                    /\ exit_status' = "0"
         ELSE /\ Return1
              /\ UNCHANGED sheet1
    /\ UNCHANGED << reportVars, raceVars, colVars, changeVars, remote, sheet0, probes, probe_outcome, page_log, skip, request_count,
                    all_links, fetch_result, payment_links, process_result,
                    process_errors, processed_data, stages >>

Next ==
    \/ ParseArgs
    \/ Validate
    \/ FetchPage
    \/ Process
    \/ OpenSheet
    \/ Clear
    \/ Update

Spec == Init /\ [][Next]_vars

(***************************************************************************)
(* extract_partial_payments.py: the DataFrame of the first worksheet.      *)
(* A DataFrame is [columns, rows]: the column names in order and the rows  *)
(* in order, each row [idx, c] with its index label and its cells, one per *)
(* column.                                                                 *)
(***************************************************************************)
NaN == [k |-> "nan"]

Range(seq) == { seq[i] : i \in 1..Len(seq) }

\* position of a column of the frame
ColIndex(columns, name) == CHOOSE i \in 1..Len(columns) : columns[i] = name

\* mutant: a frame read from a header row alone keeps the columns of the
\* header
ReadFrame_KeepHeader(grid) ==
    IF Len(grid) = 0 THEN [columns |-> <<>>, rows |-> <<>>]
    ELSE LET keys == [i \in 1..Len(grid[1]) |-> grid[1][i].s]
         IN  [ columns |-> keys,
               rows |-> [r \in 1..(Len(grid) - 1) |->
                           [ idx |-> r - 1,
                             c |-> [i \in 1..Len(keys) |->
                                      IF i <= Len(grid[r + 1])
                                      THEN grid[r + 1][i] ELSE JStr("")] ]] ]

\* worksheet.get_all_records() and pd.DataFrame(data): the first row of the
\* grid gives the keys, every further row a record (short rows are padded
\* with empty cells); with no record the frame has no column
ReadFrame(grid) ==
    IF Len(grid) <= 1 THEN [columns |-> <<>>, rows |-> <<>>]
    ELSE LET keys == [i \in 1..Len(grid[1]) |-> grid[1][i].s]
         IN  [ columns |-> keys,
               rows |-> [r \in 1..(Len(grid) - 1) |->
                           [ idx |-> r - 1,
                             c |-> [i \in 1..Len(keys) |->
                                      IF i <= Len(grid[r + 1])
                                      THEN grid[r + 1][i] ELSE JStr("")] ]] ]

\* "sub" in col.lower(), for the column names of the model
LowerContains(col, sub) ==
    CASE sub = "amount" ->
           col \in {"Amount (₹)", "Amount Paid (₹)", "First Min Partial Amount (₹)",
                    "Due Amount (₹)", "Total Amount", "amount paid"}
      [] sub = "paid" -> col \in {"Amount Paid (₹)", "amount paid"}
      [] sub = "status" -> col \in {"Status", "Reminder Status", "Payment Status"}
      [] sub = "currency" -> col \in {"Currency", "currency code"}
      [] sub = "reference" -> col \in {"Reference ID", "Booking reference"}
      [] OTHER -> FALSE

IsAmountCol(col) == LowerContains(col, "amount") /\ ~LowerContains(col, "paid")
IsPaidCol(col) == LowerContains(col, "amount") /\ LowerContains(col, "paid")
IsStatusCol(col) == LowerContains(col, "status")
IsCurrencyCol(col) == LowerContains(col, "currency")
IsReferenceCol(col) == LowerContains(col, "reference")

\* the test of the search loop for a semantic column
Accepts(role, col) ==
    CASE role = "amount" -> IsAmountCol(col)
      [] role = "paid" -> IsPaidCol(col)
      [] role = "status" -> IsStatusCol(col)
      [] role = "currency" -> IsCurrencyCol(col)
      [] role = "reference" -> IsReferenceCol(col)

\* mutant: no search for a similar column name
ResolveCol_ExactOnly(columns, exact, role) == exact

\* lines 96-101 (and 103-122, 201-215): the exactly named column when the
\* frame has it, else the first column the test accepts, else the name
\* unchanged
ResolveCol(columns, exact, role) ==
    IF exact \in Range(columns) THEN exact
    ELSE LET cand == { i \in 1..Len(columns) : Accepts(role, columns[i]) }
         IN  IF cand = {} THEN exact
             ELSE columns[CHOOSE i \in cand : \A j \in cand : i <= j]

\* mutant: a cell that is no number counts as 0
ToNumeric_Zero(cell) ==
    IF cell.k = "float" THEN cell
    ELSE IF cell.k = "int" THEN JFloat(cell.n, 0)
    ELSE JFloat(0, 0)

\* pd.to_numeric(cell, errors='coerce'), the strings of the model not being
\* numerals
ToNumeric(cell) ==
    IF cell.k = "float" THEN cell
    ELSE IF cell.k = "int" THEN JFloat(cell.n, 0)
    ELSE NaN

\* a < b on floats: False when either is not-a-number
Less(a, b) ==
    /\ a.k = "float"
    /\ b.k = "float"
    /\ (a.u < b.u \/ (a.u = b.u /\ a.c < b.c))

\* a - b on floats
Minus(a, b) ==
    IF a.k = "float" /\ b.k = "float"
    THEN LET t == (a.u * 100 + a.c) - (b.u * 100 + b.c)
         IN  JFloat(t \div 100, t % 100)
    ELSE NaN

\* the cell of a row in a column of the frame
Cell(df, row, name) == row.c[ColIndex(df.columns, name)]

\* df[names]: the named columns, in the order of names
SelectColumns(df, names) ==
    [ columns |-> names,
      rows |-> [r \in 1..Len(df.rows) |->
                  [df.rows[r] EXCEPT !.c =
                      [i \in 1..Len(names) |-> Cell(df, df.rows[r], names[i])]]] ]

due_col == "Due Amount (₹)"

\* the names extract_partial_payments works with (lines 90-122)
AmountCol(df) == ResolveCol(df.columns, "Amount (₹)", "amount")
PaidCol(df) == ResolveCol(df.columns, "Amount Paid (₹)", "paid")
StatusCol(df) == ResolveCol(df.columns, "Status", "status")
CurrencyCol(df) == ResolveCol(df.columns, "Currency", "currency")

\* the cell a column assignment of lines 131-145 gives to a row: the
\* right-hand side of the assignment, on the frame it is evaluated on
Assigned(df, row, rhs) ==
    CASE rhs = "numeric_amount" -> ToNumeric(Cell(df, row, AmountCol(df)))
      [] rhs = "numeric_paid" -> ToNumeric(Cell(df, row, PaidCol(df)))
      [] rhs = "due" -> Minus(Cell(df, row, AmountCol(df)), Cell(df, row, PaidCol(df)))
      [] rhs = "INR" -> JStr("INR")

\* df[name] = rhs: the column is replaced in place when the frame has it
\* and added as the last column otherwise
SetColumn(df, name, rhs) ==
    IF name \in Range(df.columns)
    THEN LET p == ColIndex(df.columns, name)
         IN  [df EXCEPT !.rows = [r \in 1..Len(df.rows) |->
                 [df.rows[r] EXCEPT !.c = [@ EXCEPT ![p] = Assigned(df, df.rows[r], rhs)]]]]
    ELSE [ columns |-> Append(df.columns, name),
           rows |-> [r \in 1..Len(df.rows) |->
                       [df.rows[r] EXCEPT !.c = Append(@, Assigned(df, df.rows[r], rhs))]] ]

\* lines 125-128: a required column was not found, ValueError
MissingCols(df) ==
    { col \in {AmountCol(df), PaidCol(df), StatusCol(df)} : col \notin Range(df.columns) }

\* lines 131-132: both amount columns made numeric
Coerced(df) ==
    SetColumn(SetColumn(df, AmountCol(df), "numeric_amount"), PaidCol(df), "numeric_paid")

\* mutant: the filter of the earlier variant, without the status clause
KeepRow_NoStatus(df, row) ==
    Less(Cell(df, row, PaidCol(df)), Cell(df, row, AmountCol(df)))

\* line 137: the mask of the filter on a row of the coerced frame
KeepRow(df, row) ==
    /\ Less(Cell(df, row, PaidCol(df)), Cell(df, row, AmountCol(df)))
    /\ Cell(df, row, StatusCol(df)) = JStr("created")

\* lines 137-146: the rows kept, with the due column and, when the frame has
\* no currency column, a Currency column of "INR"
Filtered(df) ==
    LET c == Coerced(df)
        keep(row) == KeepRow(c, row)
        kept == [c EXCEPT !.rows = SelectSeq(c.rows, keep)]
        with_due == SetColumn(kept, due_col, "due")
    IN  IF CurrencyCol(df) \in Range(with_due.columns) THEN with_due
        ELSE SetColumn(with_due, CurrencyCol(df), "INR")

\* the orders of n rows
Orders(n) == { p \in [1..n -> 1..n] : \A i, j \in 1..n : i # j => p[i] # p[j] }

\* line 149: sort_values(by=due_col, ascending=False) with the default
\* kind='quicksort', which pandas documents as not stable: every order of
\* the rows with the due amounts descending is a possible result
SortedByDue(df) ==
    LET n == Len(df.rows)
        d(r) == Cell(df, df.rows[r], due_col)
    IN  { [df EXCEPT !.rows = [i \in 1..n |-> df.rows[p[i]]]] :
            p \in { q \in Orders(n) :
                      \A i, j \in 1..n : i < j => ~Less(d(q[i]), d(q[j])) } }

\* lines 154-160: the columns exported, those of the list the frame has
ExportColumns(df, columns) ==
    SelectSeq(<< "ID", AmountCol(df), PaidCol(df), due_col, CurrencyCol(df),
                 StatusCol(df), "Short URL", "Reference ID", "Customer Email",
                 "Customer Contact" >>,
              LAMBDA col : col \in Range(columns))

\* extract_partial_payments raises (ValueError of line 128)
ExtractRaises(df) == MissingCols(df) # {}

\* lines 125-128: the ValueError, with the names of the required columns
\* that were not found, in the order of required_cols, and the names of
\* the columns of the frame
MissingColsError(df) ==
    [ kind |-> "ValueError",
      missing |-> SelectSeq(<< AmountCol(df), PaidCol(df), StatusCol(df) >>,
                            LAMBDA col : col \in MissingCols(df)),
      available |-> df.columns ]

\* the frames extract_partial_payments can return for the frame read
ExtractResults(df) ==
    LET f == Filtered(df)
    IN  { SelectColumns(sorted, ExportColumns(df, f.columns)) : sorted \in SortedByDue(f) }

(***************************************************************************)
(* extract_partial_payments.py: generate_summary.                          *)
(***************************************************************************)
\* Series.sum() of the due column over rows, in hundredths
RECURSIVE SumDueCents(_, _, _)
SumDueCents(df, rows, i) ==
    IF i > Len(rows) THEN 0
    ELSE LET d == Cell(df, rows[i], due_col)
         IN  (IF d.k = "float" THEN d.u * 100 + d.c ELSE 0) + SumDueCents(df, rows, i + 1)

\* {"count": len(rows), "amount": rows[due_col].sum()}
Bucket(df, rows) ==
    LET t == SumDueCents(df, rows, 1)
    IN  [count |-> Len(rows), amount |-> JFloat(t \div 100, t % 100)]

\* mutant: the prefix is matched without regard to case
StartsWithJuly_AnyCase(cell) ==
    cell.k = "str" /\ cell.s \in {"July", "July-batch", "July2024-7", "july-lower"}

\* str(cell).startswith("July"), for the reference ids of the model
StartsWithJuly(cell) == cell.k = "str" /\ cell.s \in {"July", "July-batch", "July2024-7"}

\* the reference-id column generate_summary works with (lines 200-206)
RefIdCol(data) == ResolveCol(data.columns, "Reference ID", "reference")

\* lines 260 and 292: the rows whose reference id starts with "July"; with
\* no reference-id column (lines 229-256) no row counts as a July row
JulyRows(data, rows) ==
    SelectSeq(rows, LAMBDA row : /\ RefIdCol(data) \in Range(data.columns)
                                 /\ StartsWithJuly(Cell(data, row, RefIdCol(data))))

\* mutant: the other bucket takes every row
OtherRows_All(data, rows) == rows

\* lines 261 and 297: the rows whose reference id does not start with
\* "July"; with no reference-id column every row
OtherRows(data, rows) ==
    SelectSeq(rows, LAMBDA row : ~(/\ RefIdCol(data) \in Range(data.columns)
                                   /\ StartsWithJuly(Cell(data, row, RefIdCol(data)))))

\* generate_summary(data)
generate_summary(data) ==
    LET currency_col == ResolveCol(data.columns, "Currency", "currency")
        has_currency == currency_col \in Range(data.columns)
        split(rows) == [ total |-> Bucket(data, rows),
                         july |-> Bucket(data, JulyRows(data, rows)),
                         other |-> Bucket(data, OtherRows(data, rows)) ]
        all == split(data.rows)
        currencies == { Cell(data, data.rows[r], currency_col) : r \in 1..Len(data.rows) }
        group(cur) == SelectSeq(data.rows, LAMBDA row : Cell(data, row, currency_col) = cur)
    IN  [ total |-> [count |-> Len(data.rows),
                     amount |-> Minus(all.july.amount,
                                      Minus(JFloat(0, 0), all.other.amount))],
          july |-> all.july,
          other |-> all.other,
          by_currency |->
              IF has_currency THEN [cur \in currencies |-> split(group(cur))]
              ELSE [cur \in {JStr("INR")} |-> all] ]

(***************************************************************************)
(* extract_partial_payments.py: main.                                      *)
(***************************************************************************)
tab_name == "Partial Payments"

\* a DataFrame as the values written to a worksheet
HeaderCells(df) == [i \in 1..Len(df.columns) |-> JStr(df.columns[i])]
ValueRows(df) == [r \in 1..Len(df.rows) |-> df.rows[r].c]

\* a row of the first worksheet under a header: amount and amount paid in
\* rupees, status, currency and reference id in their columns, the id of
\* the link in ID, every other cell empty
RowKinds ==
    { [amount |-> JFloat(1500, 0), paid |-> JFloat(500, 0), status |-> JStr("created"),
       currency |-> JStr("INR"), ref |-> JStr("July-batch")],
      [amount |-> JFloat(1000, 0), paid |-> JFloat(0, 0), status |-> JStr("created"),
       currency |-> JStr("INR"), ref |-> JStr("Aug-batch")],
      [amount |-> JFloat(2000, 0), paid |-> JFloat(500, 50), status |-> JStr("created"),
       currency |-> JStr("USD"), ref |-> JStr("July2024-7")],
      [amount |-> JFloat(1500, 0), paid |-> JFloat(1500, 0), status |-> JStr("created"),
       currency |-> JStr("INR"), ref |-> JStr("")],
      [amount |-> JFloat(1500, 0), paid |-> JFloat(500, 0), status |-> JStr("paid"),
       currency |-> JStr("INR"), ref |-> JStr("July-batch")],
      [amount |-> JStr("n/a"), paid |-> JFloat(0, 0), status |-> JStr("created"),
       currency |-> JStr("INR"), ref |-> JStr("Aug-batch")],
      [amount |-> JFloat(1500, 0), paid |-> JFloat(500, 0), status |-> JStr("Created"),
       currency |-> JStr("USD"), ref |-> JStr("july-lower")] }

ReportHeaders ==
    { header,
      << "ID", "Total Amount", "amount paid", "Payment Status", "Booking reference" >>,
      << "ID", "Amount (₹)", "Amount Paid (₹)", "Currency" >> }

SheetRow(hdr, kind, i) ==
    [j \in 1..Len(hdr) |->
        CASE hdr[j] = "ID" -> PlinkId(i)
          [] hdr[j] \in {"Amount (₹)", "Total Amount"} -> kind.amount
          [] IsPaidCol(hdr[j]) -> kind.paid
          [] hdr[j] \in {"Status", "Payment Status"} -> kind.status
          [] hdr[j] = "Currency" -> kind.currency
          [] IsReferenceCol(hdr[j]) -> kind.ref
          [] hdr[j] = "First Min Partial Amount (₹)" -> JFloat(0, 0)
          [] OTHER -> JStr("")]

\* the first worksheets a report run is checked on: those of at most most
\* data rows
ReportSheets(most) ==
    UNION { { <<[j \in 1..Len(hdr) |-> JStr(hdr[j])]>>
                \o [i \in 1..n |-> SheetRow(hdr, kinds[i], i)]
              : kinds \in [1..n -> RowKinds] }
            : hdr \in ReportHeaders, n \in 0..most }

\* what the 'Partial Payments' worksheet holds from an earlier run
export_header ==
    << "ID", "Amount (₹)", "Amount Paid (₹)", due_col, "Currency", "Status",
       "Short URL", "Reference ID", "Customer Email", "Customer Contact" >>
StaleTabRow(j) ==
    LET row == << PlinkId(900 + j), JFloat(900, 0), JFloat(100 * j, 0),
                  JFloat(900 - 100 * j, 0), JStr("INR"), JStr("created"), JStr(""),
                  JStr("Old-batch"), JStr(""), JStr("") >>
    IN  IF j % 2 = 1 THEN Append(row, JStr("called")) ELSE row
StaleTab(k) ==
    IF k = 0 THEN <<>>
    ELSE <<[j \in 1..Len(export_header) |-> JStr(export_header[j])]>>
           \o [j \in 1..k |-> StaleTabRow(j)]
StaleTabs == { StaleTab(k) : k \in 0..MaxStale }

InitReportRun ==
    /\ NoOtherRun
    /\ NoColumn
    /\ NoChange
    /\ remote = <<>>
    /\ sheet1 \in ReportSheets(MaxTable)
    /\ sheet0 = sheet1
    /\ \/ tab_exists = FALSE /\ tab_grid = <<>>
       \/ tab_exists = TRUE /\ tab_grid \in StaleTabs
    /\ tab0 = [exists |-> tab_exists, grid |-> tab_grid]
    /\ InitSync
    /\ InitReport

\* the except clause of main: log and print the error, return 1
RReturn1 ==
    /\ rpc' = "exit"
    /\ rexit_status' = "1"

\* main, lines 581-587: --test-email runs test_email_connection only
RParseArgs ==
    /\ rpc = "parse_args"
    /\ \E test_email \in BOOLEAN :
         IF test_email
         THEN /\ rpc' = "exit"
              /\ \E sent \in BOOLEAN : rexit_status' = IF sent THEN "0" ELSE "1"
         ELSE /\ rpc' = "connect"
              /\ UNCHANGED rexit_status
    /\ UNCHANGED << raceVars, colVars, changeVars, remote, sheet1, sheet0, syncVars, tab_exists, tab_grid, tab0,
                    extract_result, extract_error, partial_payments, reapply_result, reapplied, summary,
                    email_sent, warned, csv_file >>

\* main, lines 591-592: connect_to_sheet() and spreadsheet.sheet1
RConnect ==
    /\ rpc = "connect"
    /\ \E ok \in BOOLEAN :
         IF ok THEN rpc' = "extract" /\ UNCHANGED rexit_status
         ELSE RReturn1
    /\ UNCHANGED << raceVars, colVars, changeVars, remote, sheet1, sheet0, syncVars, tab_exists, tab_grid, tab0,
                    extract_result, extract_error, partial_payments, reapply_result, reapplied, summary,
                    email_sent, warned, csv_file >>

\* main, lines 595-597 and 640-643: extract_partial_payments(worksheet);
\* with no row to report the run ends here with status 0
RExtract ==
    /\ rpc = "extract"
    /\ \E ok \in BOOLEAN :
         IF ~ok \/ ExtractRaises(ReadFrame(sheet1))
         THEN /\ extract_result' = "raised"
              /\ extract_error' = IF ok THEN MissingColsError(ReadFrame(sheet1))
                                         ELSE OtherError
              /\ RReturn1
              /\ UNCHANGED partial_payments
         ELSE \E out \in ExtractResults(ReadFrame(sheet1)) :
                /\ extract_result' = "returned"
                /\ UNCHANGED extract_error
                /\ partial_payments' = out
                /\ IF Len(out.rows) > 0
                   THEN rpc' = "tab_lookup" /\ UNCHANGED rexit_status
                   ELSE rpc' = "exit" /\ rexit_status' = "0"
    /\ UNCHANGED << raceVars, colVars, changeVars, remote, sheet1, sheet0, syncVars, tab_exists, tab_grid, tab0,
                    reapply_result, reapplied, summary, email_sent, warned, csv_file >>

\* create_or_update_sheet_tab, line 174: spreadsheet.worksheet(tab_name)
RTabLookup ==
    /\ rpc = "tab_lookup"
    /\ \E ok \in BOOLEAN :
         IF ok THEN /\ rpc' = IF tab_exists THEN "tab_clear" ELSE "tab_add"
                    /\ UNCHANGED rexit_status
         ELSE RReturn1
    /\ UNCHANGED << raceVars, colVars, changeVars, remote, sheet1, sheet0, syncVars, tab_exists, tab_grid, tab0,
                    extract_result, extract_error, partial_payments, reapply_result, reapplied, summary,
                    email_sent, warned, csv_file >>

\* create_or_update_sheet_tab, line 176: worksheet.clear()
RTabClear ==
    /\ rpc = "tab_clear"
    /\ \E ok \in BOOLEAN :
         IF ok THEN /\ tab_grid' = ClearGrid(tab_grid)
                    /\ rpc' = "tab_header"
                    /\ UNCHANGED rexit_status
         ELSE /\ RReturn1
              /\ UNCHANGED tab_grid
    /\ UNCHANGED << raceVars, colVars, changeVars, remote, sheet1, sheet0, syncVars, tab_exists, tab0,
                    extract_result, extract_error, partial_payments, reapply_result, reapplied, summary,
                    email_sent, warned, csv_file >>

\* create_or_update_sheet_tab, line 180: spreadsheet.add_worksheet(...)
RTabAdd ==
    /\ rpc = "tab_add"
    /\ \E ok \in BOOLEAN :
         IF ok THEN /\ tab_exists' = TRUE
                    /\ tab_grid' = <<>>
                    /\ rpc' = "tab_header"
                    /\ UNCHANGED rexit_status
         ELSE /\ RReturn1
              /\ UNCHANGED << tab_exists, tab_grid >>
    /\ UNCHANGED << raceVars, colVars, changeVars, remote, sheet1, sheet0, syncVars, tab0, extract_result, extract_error,
                    partial_payments, reapply_result, reapplied, summary, email_sent, warned, csv_file >>

\* create_or_update_sheet_tab, line 185: the header row written at A1
RTabHeader ==
    /\ rpc = "tab_header"
    /\ \E ok \in BOOLEAN :
         IF ok THEN /\ tab_grid' = WriteRange(tab_grid, 1, <<HeaderCells(partial_payments)>>)
                    /\ rpc' = "tab_data"
                    /\ UNCHANGED rexit_status
         ELSE /\ RReturn1
              /\ UNCHANGED tab_grid
    /\ UNCHANGED << raceVars, colVars, changeVars, remote, sheet1, sheet0, syncVars, tab_exists, tab0,
                    extract_result, extract_error, partial_payments, reapply_result, reapplied, summary,
                    email_sent, warned, csv_file >>

\* create_or_update_sheet_tab, lines 188-192: the data rows written at A2,
\* when there is one
RTabData ==
    /\ rpc = "tab_data"
    /\ IF Len(partial_payments.rows) = 0
       THEN /\ rpc' = "summary"
            /\ UNCHANGED << tab_grid, rexit_status >>
       ELSE \E ok \in BOOLEAN :
              IF ok THEN /\ tab_grid' = WriteRange(tab_grid, 2, ValueRows(partial_payments))
                         /\ rpc' = "summary"
                         /\ UNCHANGED rexit_status
              ELSE /\ RReturn1
                   /\ UNCHANGED tab_grid
    /\ UNCHANGED << raceVars, colVars, changeVars, remote, sheet1, sheet0, syncVars, tab_exists, tab0,
                    extract_result, extract_error, partial_payments, reapply_result, reapplied, summary,
                    email_sent, warned, csv_file >>

\* main, line 602: generate_summary(partial_payments)
RSummary ==
    /\ rpc = "summary"
    /\ summary' = generate_summary(partial_payments)
    /\ rpc' = "email"
    /\ UNCHANGED << raceVars, colVars, changeVars, remote, sheet1, sheet0, syncVars, tab_exists, tab_grid, tab0,
                    extract_result, extract_error, partial_payments, reapply_result, reapplied,
                    email_sent, warned,
                    csv_file, rexit_status >>

\* what can happen in send_email_summary: the message is sent, the .env
\* file is missing (line 315), a credential is missing (321, 329) or not
\* ASCII (338, 343), the login is refused, another SMTP error, or the
\* connection fails
EmailOutcomes ==
    { "sent", "no_env_file", "no_sender", "no_password", "non_ascii", "auth_error",
      "smtp_error", "connection_error" }

\* mutant: only the SMTP errors are caught
EmailRaises_Connection(o) == o = "connection_error"

\* send_email_summary returns False at lines 315-346 and in each of its
\* except clauses (465-475), the last of which catches every Exception
EmailRaises(o) == FALSE

\* main, line 608: email_sent = send_email_summary(summary, sheet_url)
REmail ==
    /\ rpc = "email"
    /\ \E o \in EmailOutcomes :
         IF EmailRaises(o)
         THEN /\ RReturn1
              /\ UNCHANGED email_sent
         ELSE /\ email_sent' = (o = "sent")
              /\ rpc' = "csv"
              /\ UNCHANGED rexit_status
    /\ UNCHANGED << raceVars, colVars, changeVars, remote, sheet1, sheet0, syncVars, tab_exists, tab_grid, tab0,
                    extract_result, extract_error, partial_payments, reapply_result,
                    reapplied, summary, warned, csv_file >>

\* main, lines 611-643: the CSV export, the printed summary with the
\* WARNING line when the email was not sent (lines 636-639), return 0
RCsv ==
    /\ rpc = "csv"
    /\ \E ok \in BOOLEAN :
         IF ok THEN /\ csv_file' = <<HeaderCells(partial_payments)>>
                                     \o ValueRows(partial_payments)
                    /\ warned' = ~email_sent
                    /\ rpc' = "exit"
                    /\ rexit_status' = "0"
         ELSE /\ RReturn1
              /\ UNCHANGED << csv_file, warned >>
    /\ UNCHANGED << raceVars, colVars, changeVars, remote, sheet1, sheet0, syncVars, tab_exists, tab_grid, tab0,
                    extract_result, extract_error, partial_payments, reapply_result, reapplied, summary,
                    email_sent >>

NextReport ==
    \/ RParseArgs
    \/ RConnect
    \/ RExtract
    \/ RTabLookup
    \/ RTabClear
    \/ RTabAdd
    \/ RTabHeader
    \/ RTabData
    \/ RSummary
    \/ REmail
    \/ RCsv

SpecReport == InitReportRun /\ [][NextReport]_vars

(***************************************************************************)
(* The tab replacement on its own: update_google_sheet of a sync run that  *)
(* has normalized its links, and create_or_update_sheet_tab called with a  *)
(* frame extract_partial_payments returns (with or without rows).          *)
(***************************************************************************)
\* the sync script about to call update_google_sheet(processed_data)
SyncAtPush ==
    /\ remote \in { r \in SmallRemotes : ~process_payment_links(r).raised }
    /\ sheet1 \in StaleSheets
    /\ pc = "open_sheet"
    /\ probes = 1
    /\ probe_outcome = "ok"
    /\ page_log = << [skip |-> 0, outcome |-> "ok"] >>
    /\ skip = 0
    /\ request_count = 1
    /\ all_links = remote
    /\ fetch_result = "returned"
    /\ payment_links = remote
    /\ process_result = "returned"
    /\ process_errors = process_payment_links(remote).skipped
    /\ processed_data = process_payment_links(remote).data
    /\ exit_status = "none"
    /\ stages = << "validate", "fetch", "normalize" >>

\* create_or_update_sheet_tab(spreadsheet, partial_payments) about to start
ReportAtTab ==
    /\ sheet1 \in { g \in ReportSheets(MaxTable) : ~ExtractRaises(ReadFrame(g)) }
    /\ partial_payments \in ExtractResults(ReadFrame(sheet1))
    /\ rpc = "tab_lookup"
    /\ extract_result = "returned"
    /\ extract_error = NoError
    /\ reapply_result = "none"
    /\ reapplied = NoFrame
    /\ summary = NoSummary
    /\ email_sent = FALSE
    /\ warned = FALSE
    /\ csv_file = <<>>
    /\ rexit_status = "none"

InitTab ==
    /\ NoOtherRun
    /\ NoColumn
    /\ NoChange
    /\ \/ /\ SyncAtPush
          /\ tab_exists = FALSE /\ tab_grid = <<>>
          /\ InitReport
       \/ /\ ReportAtTab
          /\ \/ tab_exists = FALSE /\ tab_grid = <<>>
             \/ tab_exists = TRUE /\ tab_grid \in StaleTabs
          /\ remote = <<>>
          /\ InitSync
    /\ sheet0 = sheet1
    /\ tab0 = [exists |-> tab_exists, grid |-> tab_grid]

NextTab ==
    \/ OpenSheet
    \/ Clear
    \/ Update
    \/ RTabLookup
    \/ RTabClear
    \/ RTabAdd
    \/ RTabHeader
    \/ RTabData

SpecTab == InitTab /\ [][NextTab]_vars

(***************************************************************************)
(* extract_partial_payments applied to a worksheet, then to a worksheet    *)
(* that holds the table the first application returned.                    *)
(***************************************************************************)
\* the grid of a worksheet holding a frame: its header and its rows
GridOf(df) == <<HeaderCells(df)>> \o ValueRows(df)

Reapply ==
    /\ extract_result = "returned"
    /\ reapply_result = "none"
    /\ LET df == ReadFrame(GridOf(partial_payments))
       IN  IF ExtractRaises(df)
           THEN /\ reapply_result' = "raised"
                /\ UNCHANGED reapplied
           ELSE \E out \in ExtractResults(df) :
                  /\ reapply_result' = "returned"
                  /\ reapplied' = out
    /\ UNCHANGED << raceVars, colVars, changeVars, remote, sheet1, sheet0, syncVars, tab_exists, tab_grid, tab0,
                    rpc, extract_result, extract_error, partial_payments, summary, email_sent, warned,
                    csv_file, rexit_status >>

NextIdem ==
    \/ RParseArgs
    \/ RConnect
    \/ RExtract
    \/ Reapply

SpecIdem == InitReportRun /\ [][NextIdem]_vars

(***************************************************************************)
(* A report run on a first worksheet whose columns were renamed, removed   *)
(* or reordered by hand.                                                   *)
(***************************************************************************)
RenamedPool ==
    { "Amount (₹)", "Total Amount", "Amount Paid (₹)", "amount paid", "Status",
      "Payment Status" }

\* ID and up to MaxHeader columns of the pool, each at most once
RenamedHeaders ==
    UNION { { <<"ID">> \o h : h \in { g \in [1..n -> RenamedPool] :
                                        \A i, j \in 1..n : i # j => g[i] # g[j] } }
            : n \in 0..MaxHeader }

\* a row of kind 1 or 2 under such a header; the cells of two columns of
\* the same role differ
RenamedRow(hdr, kind, i) ==
    [j \in 1..Len(hdr) |->
        CASE hdr[j] = "ID" -> PlinkId(i)
          [] hdr[j] = "Amount (₹)" -> JFloat(1500, 0)
          [] hdr[j] = "Total Amount" -> JFloat(400, 0)
          [] hdr[j] = "Amount Paid (₹)" -> JFloat(500, 0)
          [] hdr[j] = "amount paid" -> JFloat(300, 0)
          [] hdr[j] = "Status" -> IF kind = 1 THEN JStr("created") ELSE JStr("paid")
          [] hdr[j] = "Payment Status" -> IF kind = 1 THEN JStr("paid")
                                                      ELSE JStr("created")]

\* the worksheets of at most most data rows under such headers
RenamedSheets(most) ==
    UNION { { <<[j \in 1..Len(hdr) |-> JStr(hdr[j])]>>
                \o [i \in 1..n |-> RenamedRow(hdr, kinds[i], i)]
              : kinds \in [1..n -> {1, 2}] }
            : hdr \in RenamedHeaders, n \in 0..most }

InitRenamed ==
    /\ NoOtherRun
    /\ NoColumn
    /\ NoChange
    /\ remote = <<>>
    /\ sheet1 \in RenamedSheets(MaxRenamed)
    /\ sheet0 = sheet1
    /\ \/ tab_exists = FALSE /\ tab_grid = <<>>
       \/ tab_exists = TRUE /\ tab_grid = StaleTab(MaxStale)
    /\ tab0 = [exists |-> tab_exists, grid |-> tab_grid]
    /\ InitSync
    /\ InitReport

SpecRenamed == InitRenamed /\ [][NextReport]_vars

(***************************************************************************)
(* Two runs on one worksheet, nothing serializing them: the first run is   *)
(* the one modelled above, about to replace the worksheet; the second run  *)
(* makes the same calls of update_google_sheet (on the first worksheet) or *)
(* of create_or_update_sheet_tab (on the 'Partial Payments' worksheet)     *)
(* with a table of its own, and the calls of the two interleave.           *)
(***************************************************************************)
\* the tables the second sync run has normalized
OtherSheetTables ==
    { process_payment_links([i \in 1..k |-> SampleLink("full", 500 + i)]).data :
        k \in 0..MaxOther }

\* the first worksheet the second report run has read
OtherSheet(k) ==
    <<HeaderRow>>
      \o [i \in 1..k |->
            SheetRow(header,
                     [amount |-> JFloat(1500, 0), paid |-> JFloat(500, 0),
                      status |-> JStr("created"), currency |-> JStr("INR"),
                      ref |-> JStr("July-batch")],
                     500 + i)]

\* the tables the second report run has extracted
OtherTabTables ==
    UNION { { GridOf(out) : out \in ExtractResults(ReadFrame(OtherSheet(k))) }
            : k \in 1..MaxOther }

InitRace ==
    /\ NoColumn
    /\ NoChange
    /\ \/ /\ SyncAtPush
          /\ tab_exists = FALSE /\ tab_grid = <<>>
          /\ InitReport
          /\ other_pc = "clear"
          /\ other_table \in OtherSheetTables
       \/ /\ ReportAtTab
          /\ Len(partial_payments.rows) > 0
          /\ tab_exists = TRUE /\ tab_grid = StaleTab(MaxStale)
          /\ remote = <<>>
          /\ InitSync
          /\ other_pc = "tab_clear"
          /\ other_table \in OtherTabTables
    /\ other_wrote_last = FALSE
    /\ sheet0 = sheet1
    /\ tab0 = [exists |-> tab_exists, grid |-> tab_grid]

\* update_google_sheet of the second run, line 411: worksheet.clear()
OtherClear ==
    /\ other_pc = "clear"
    /\ sheet1' = ClearGrid(sheet1)
    /\ other_pc' = "update"
    /\ UNCHANGED << colVars, changeVars, remote, sheet0, syncVars, reportVars, other_table, other_wrote_last >>

\* update_google_sheet of the second run, line 433: the update of the range
OtherUpdate ==
    /\ other_pc = "update"
    /\ sheet1' = WriteRange(sheet1, 1, other_table)
    /\ other_pc' = "done_sheet"
    /\ other_wrote_last' = (pc = "exit" /\ exit_status = "0")
    /\ UNCHANGED << colVars, changeVars, remote, sheet0, syncVars, reportVars, other_table >>

\* create_or_update_sheet_tab of the second run, line 176: worksheet.clear()
OtherTabClear ==
    /\ other_pc = "tab_clear"
    /\ tab_grid' = ClearGrid(tab_grid)
    /\ other_pc' = "tab_header"
    /\ UNCHANGED << colVars, changeVars, remote, sheet1, sheet0, syncVars, tab_exists, tab0, rpc,
                    extract_result, extract_error, partial_payments, reapply_result,
                    reapplied, summary, email_sent, warned, csv_file, rexit_status,
                    other_table, other_wrote_last >>

\* create_or_update_sheet_tab of the second run, line 185: the header at A1
OtherTabHeader ==
    /\ other_pc = "tab_header"
    /\ tab_grid' = WriteRange(tab_grid, 1, << other_table[1] >>)
    /\ other_pc' = "tab_data"
    /\ UNCHANGED << colVars, changeVars, remote, sheet1, sheet0, syncVars, tab_exists, tab0, rpc,
                    extract_result, extract_error, partial_payments, reapply_result,
                    reapplied, summary, email_sent, warned, csv_file, rexit_status,
                    other_table, other_wrote_last >>

\* create_or_update_sheet_tab of the second run, line 189: the rows at A2
OtherTabData ==
    /\ other_pc = "tab_data"
    /\ tab_grid' = WriteRange(tab_grid, 2, Tail(other_table))
    /\ other_pc' = "done_tab"
    /\ other_wrote_last' = (rpc = "summary")
    /\ UNCHANGED << colVars, changeVars, remote, sheet1, sheet0, syncVars, tab_exists, tab0, rpc,
                    extract_result, extract_error, partial_payments, reapply_result,
                    reapplied, summary, email_sent, warned, csv_file, rexit_status,
                    other_table >>

NextRace ==
    \/ OpenSheet
    \/ Clear
    \/ Update
    \/ RTabLookup
    \/ RTabClear
    \/ RTabHeader
    \/ RTabData
    \/ OtherClear
    \/ OtherUpdate
    \/ OtherTabClear
    \/ OtherTabHeader
    \/ OtherTabData

SpecRace == InitRace /\ [][NextRace]_vars

(***************************************************************************)
(* A sync run on an account whose payment links change while the run      *)
(* fetches them: between two page requests (the loop sleeps 0.5 s there,   *)
(* line 202) a link is created or deleted at the head or at the tail of    *)
(* the collection the API pages through.                                   *)
(***************************************************************************)

\* the collections of about one and about two full pages
ChangingRemotes ==
    { [i \in 1..n |-> SampleLink("bare", i)] :
        n \in ((count - 1)..(count + 1)) \cup ((2 * count - 1)..MaxRemote) }

\* the k-th link created during the fetch
NewLink(k) == SampleLink("bare", 1000 + k)

InitChanging ==
    /\ NoOtherRun
    /\ NoColumn
    /\ NoChange
    /\ remote \in ChangingRemotes
    /\ sheet1 = <<>>
    /\ sheet0 = sheet1
    /\ tab_exists = FALSE
    /\ tab_grid = <<>>
    /\ tab0 = [exists |-> tab_exists, grid |-> tab_grid]
    /\ InitSync
    /\ InitReport

\* the account between two requests of the loop of fetch_all_payment_links
RemoteChange ==
    /\ pc = "page"
    /\ request_count >= 1
    /\ Cardinality(inserted) + Cardinality(removed) < MaxChanges
    /\ \/ \E front \in BOOLEAN :
            LET new == NewLink(Cardinality(inserted) + 1)
            IN  /\ remote' = IF front THEN <<new>> \o remote ELSE Append(remote, new)
                /\ inserted' = inserted \cup {new}
                /\ UNCHANGED removed
       \/ /\ Len(remote) > 0
          /\ \E front \in BOOLEAN :
               LET old == IF front THEN Head(remote) ELSE remote[Len(remote)]
               IN  /\ remote' = IF front THEN Tail(remote)
                                         ELSE SubSeq(remote, 1, Len(remote) - 1)
                   /\ removed' = removed \cup {old}
                   /\ UNCHANGED inserted
    /\ UNCHANGED << sheet1, sheet0, syncVars, reportVars, raceVars, colVars >>

NextChanging ==
    \/ ParseArgs
    \/ Validate
    \/ FetchPage
    \/ RemoteChange

SpecChanging == InitChanging /\ [][NextChanging]_vars

(***************************************************************************)
(* A sync run followed by a report run on the spreadsheet it has written.  *)
(***************************************************************************)
InitPipeline ==
    /\ NoOtherRun
    /\ NoColumn
    /\ NoChange
    /\ remote \in SmallRemotes
    /\ sheet1 \in StaleSheets
    /\ sheet0 = sheet1
    /\ \/ tab_exists = FALSE /\ tab_grid = <<>>
       \/ tab_exists = TRUE /\ tab_grid = StaleTab(MaxStale)
    /\ tab0 = [exists |-> tab_exists, grid |-> tab_grid]
    /\ InitSync
    /\ InitReport

\* the report script is started when the sync script has ended with
\* status 0
ThenReport ==
    /\ pc = "exit"
    /\ exit_status = "0"
    /\ NextReport

NextPipeline ==
    \/ Next
    \/ ThenReport

SpecPipeline == InitPipeline /\ [][NextPipeline]_vars

(***************************************************************************)
(* extract_partial_payments on worksheets whose amount and amount-paid     *)
(* cells are floats, integers, text or empty.                              *)
(***************************************************************************)
AmountCells == { JFloat(1500, 0), JInt(1000), JStr("n/a"), JStr("") }
PaidCells == { JFloat(500, 0), JFloat(1500, 0), JInt(0), JStr("n/a"), JStr("") }

CoercedKinds ==
    { [amount |-> a, paid |-> p, status |-> JStr("created"),
       currency |-> JStr("INR"), ref |-> JStr("July-batch")] :
        a \in AmountCells, p \in PaidCells }

\* the first worksheets of at most most such rows under the header of the
\* sync script
CoercedSheets(most) ==
    UNION { { <<HeaderRow>> \o [i \in 1..n |-> SheetRow(header, kinds[i], i)]
              : kinds \in [1..n -> CoercedKinds] }
            : n \in 1..most }

\* main of the report script after connect_to_sheet
InitExtract ==
    /\ NoOtherRun
    /\ NoColumn
    /\ NoChange
    /\ remote = <<>>
    /\ sheet1 \in CoercedSheets(MaxCoerced)
    /\ sheet0 = sheet1
    /\ tab_exists = FALSE
    /\ tab_grid = <<>>
    /\ tab0 = [exists |-> tab_exists, grid |-> tab_grid]
    /\ InitSync
    /\ rpc = "extract"
    /\ extract_result = "none"
    /\ extract_error = NoError
    /\ partial_payments = NoFrame
    /\ reapply_result = "none"
    /\ reapplied = NoFrame
    /\ summary = NoSummary
    /\ email_sent = FALSE
    /\ warned = FALSE
    /\ csv_file = <<>>
    /\ rexit_status = "none"

NextExtract == RExtract

SpecExtract == InitExtract /\ [][NextExtract]_vars

(***************************************************************************)
(* process_payment_links on its own: called on one payment link in which   *)
(* a set of the fields the loop reads is set and the others are absent.    *)
(***************************************************************************)

\* the keys the loop body reads from a link (lines 262-342), each with the
\* first column of the row it fills
FieldColumn ==
    [ id |-> 1, created_at |-> 2, updated_at |-> 3, amount |-> 4, amount_paid |-> 5,
      status |-> 6, currency |-> 7, description |-> 8, reference_id |-> 9,
      short_url |-> 10, upi_link |-> 11, whatsapp_link |-> 12, accept_partial |-> 13,
      first_min_partial_amount |-> 14, customer |-> 15, order_id |-> 17,
      user_id |-> 18, cancelled_at |-> 19, expire_by |-> 20, expired_at |-> 21,
      reminder_enable |-> 22, reminders |-> 23, payments |-> 24, notes |-> 26 ]

LinkFields == DOMAIN FieldColumn
TimeFields == {"created_at", "updated_at", "cancelled_at", "expire_by", "expired_at"}
MoneyFields == {"amount", "amount_paid", "first_min_partial_amount"}
FlagFields == {"upi_link", "whatsapp_link", "accept_partial", "reminder_enable"}

\* amounts in minor units: none, one that is no multiple of 100, one that
\* is, and one below zero
MinorAmounts == {0, 12345, 150000, -150000}

\* a timestamp as the API sends it: null, 0 or seconds since the epoch
Timestamps == {JNull, JInt(0), JInt(1700000000)}

\* the value of field f in a link where it is set
FieldValue(f, ts, minor) ==
    CASE f \in TimeFields -> ts
      [] f \in MoneyFields -> JInt(minor)
      [] f \in FlagFields -> JBool(TRUE)
      [] f = "id" -> PlinkId(1)
      [] f = "status" -> JStr("created")
      [] f = "currency" -> JStr("INR")
      [] f = "customer" -> JDict([g \in {"email"} |-> JStr("a@example.com")])
      [] f = "reminders" -> JDict([g \in {"status"} |-> JStr("in_progress")])
      [] f = "payments" ->
           JList(<< JDict([g \in {"payment_id", "amount"} |->
                            IF g = "payment_id" THEN JStr("pay_1") ELSE JInt(minor)]) >>)
      [] f = "notes" -> JList(<< JStr("maths") >>)
      [] OTHER -> JStr(f)

\* the sets of at most k fields
RECURSIVE SetsUpTo(_)
SetsUpTo(k) ==
    IF k = 0 THEN {{}}
    ELSE LET smaller == SetsUpTo(k - 1)
         IN  smaller \cup { s \cup {f} : s \in smaller, f \in LinkFields }

\* the fields set in a link: at most k of them, or all but at most k of
\* them
FieldSets(k) == SetsUpTo(k) \cup { LinkFields \ s : s \in SetsUpTo(k) }

\* the collections of one such link
NormalizeInputs(k) ==
    { << JDict([f \in set |-> FieldValue(f, ts, minor)]) >> :
        set \in FieldSets(k), ts \in Timestamps, minor \in MinorAmounts }

\* main after get_payment_links returned the one link of the collection
InitNormalize ==
    /\ NoOtherRun
    /\ NoColumn
    /\ NoChange
    /\ remote \in NormalizeInputs(MaxFields)
    /\ sheet1 = <<>>
    /\ sheet0 = sheet1
    /\ tab_exists = FALSE
    /\ tab_grid = <<>>
    /\ tab0 = [exists |-> tab_exists, grid |-> tab_grid]
    /\ InitReport
    /\ pc = "process"
    /\ probes = 1
    /\ probe_outcome = "ok"
    /\ page_log = << [skip |-> 0, outcome |-> "ok"] >>
    /\ skip = 0
    /\ request_count = 1
    /\ all_links = remote
    /\ fetch_result = "returned"
    /\ payment_links = remote
    /\ process_result = "none"
    /\ process_errors = 0
    /\ processed_data = <<>>
    /\ exit_status = "none"
    /\ stages = << "validate", "fetch" >>

NextNormalize == Process

SpecNormalize == InitNormalize /\ [][NextNormalize]_vars

(***************************************************************************)
(* col_num_to_letter on its own, called with a column number.              *)
(***************************************************************************)
InitCol ==
    /\ remote = <<>>
    /\ sheet1 = <<>>
    /\ sheet0 = sheet1
    /\ tab_exists = FALSE
    /\ tab_grid = <<>>
    /\ tab0 = [exists |-> tab_exists, grid |-> tab_grid]
    /\ InitSync
    /\ InitReport
    /\ NoOtherRun
    /\ NoChange
    /\ num_cols \in 1..MaxCol
    /\ last_col_letter = <<>>

\* line 427: last_col_letter = col_num_to_letter(num_cols)
ColLetter ==
    /\ last_col_letter = <<>>
    /\ last_col_letter' = col_num_to_letter(num_cols)
    /\ UNCHANGED << num_cols, changeVars, remote, sheet1, sheet0, syncVars, reportVars, raceVars >>

NextCol == ColLetter

SpecCol == InitCol /\ [][NextCol]_vars

(***************************************************************************)
(* generate_summary on its own: called with a report table, one that       *)
(* extract_partial_payments returns or such a table without its currency   *)
(* column, its reference-id column or both.                                *)
(***************************************************************************)
\* the frame without the named columns
DropColumns(df, names) ==
    SelectColumns(df, SelectSeq(df.columns, LAMBDA col : col \notin names))

SummaryTables(most) ==
    UNION { { DropColumns(out, drop) :
                out \in ExtractResults(ReadFrame(g)),
                drop \in SUBSET {"Currency", "Reference ID"} }
            : g \in { g \in ReportSheets(most) : ~ExtractRaises(ReadFrame(g)) } }

InitSummary ==
    /\ NoOtherRun
    /\ NoColumn
    /\ NoChange
    /\ remote = <<>>
    /\ sheet1 = <<>>
    /\ sheet0 = sheet1
    /\ tab_exists = FALSE
    /\ tab_grid = <<>>
    /\ tab0 = [exists |-> tab_exists, grid |-> tab_grid]
    /\ InitSync
    /\ partial_payments \in SummaryTables(MaxTable)
    /\ rpc = "summary"
    /\ extract_result = "returned"
    /\ extract_error = NoError
    /\ reapply_result = "none"
    /\ reapplied = NoFrame
    /\ summary = NoSummary
    /\ email_sent = FALSE
    /\ warned = FALSE
    /\ csv_file = <<>>
    /\ rexit_status = "none"

NextSummary == RSummary

SpecSummary == InitSummary /\ [][NextSummary]_vars

(***************************************************************************)
(* generate_summary on tables whose rows all pass the filter, with         *)
(* reference ids that start with "July", that start with "july", that hold *)
(* "July" further on, or that do not hold it.                              *)
(***************************************************************************)
GroupingKinds ==
    { [amount |-> JFloat(1500, 0), paid |-> JFloat(500, 0), status |-> JStr("created"),
       currency |-> JStr("INR"), ref |-> JStr("July-batch")],
      [amount |-> JFloat(1000, 0), paid |-> JFloat(0, 0), status |-> JStr("created"),
       currency |-> JStr("INR"), ref |-> JStr("Aug-batch")],
      [amount |-> JFloat(2000, 0), paid |-> JFloat(500, 50), status |-> JStr("created"),
       currency |-> JStr("USD"), ref |-> JStr("July2024-7")],
      [amount |-> JFloat(1500, 0), paid |-> JFloat(500, 0), status |-> JStr("created"),
       currency |-> JStr("USD"), ref |-> JStr("july-lower")],
      [amount |-> JFloat(800, 0), paid |-> JFloat(0, 0), status |-> JStr("created"),
       currency |-> JStr("INR"), ref |-> JStr("Mid-July")] }

\* the first worksheets of at most most such rows under the header of the
\* sync script
GroupingSheets(most) ==
    UNION { { <<HeaderRow>> \o [i \in 1..n |-> SheetRow(header, kinds[i], i)]
              : kinds \in [1..n -> GroupingKinds] }
            : n \in 1..most }

\* what extract_partial_payments returns for them, as it is and without
\* its currency column, its reference-id column or both
GroupingTables(most) ==
    UNION { { DropColumns(out, drop) :
                out \in ExtractResults(ReadFrame(g)),
                drop \in SUBSET {"Currency", "Reference ID"} }
            : g \in GroupingSheets(most) }

InitGrouping ==
    /\ NoOtherRun
    /\ NoColumn
    /\ NoChange
    /\ remote = <<>>
    /\ sheet1 = <<>>
    /\ sheet0 = sheet1
    /\ tab_exists = FALSE
    /\ tab_grid = <<>>
    /\ tab0 = [exists |-> tab_exists, grid |-> tab_grid]
    /\ InitSync
    /\ partial_payments \in GroupingTables(MaxTable)
    /\ rpc = "summary"
    /\ extract_result = "returned"
    /\ extract_error = NoError
    /\ reapply_result = "none"
    /\ reapplied = NoFrame
    /\ summary = NoSummary
    /\ email_sent = FALSE
    /\ warned = FALSE
    /\ csv_file = <<>>
    /\ rexit_status = "none"

SpecGrouping == InitGrouping /\ [][NextSummary]_vars

(***************************************************************************)
(* Properties of the sync script.                                          *)
(***************************************************************************)
IsPrefix(a, b) == Len(a) <= Len(b) /\ a = SubSeq(b, 1, Len(a))

AllPagesOk == \A i \in 1..Len(page_log) : page_log[i].outcome = "ok"

\* C1: on a collection of N records served page by page, the loop asks for
\* skip = 0, 100, 200, ..., never sends more than N \div 100 + 1 requests,
\* and returns after exactly N \div 100 + 1 requests, every page but the
\* last one full and the last one short, with exactly the N records in the
\* remote order.
C1_Pagination ==
    /\ Len(page_log) = request_count
    /\ \A i \in 1..Len(page_log) : page_log[i].skip = (i - 1) * count
    /\ request_count <= Len(remote) \div count + 1
    /\ pc = "page" => request_count <= Len(remote) \div count
    /\ (fetch_result = "returned" /\ AllPagesOk) =>
          /\ request_count = Len(remote) \div count + 1
          /\ \A i \in 1..(request_count - 1) :
                Len(Page(remote, page_log[i].skip, count)) = count
          /\ Len(Page(remote, page_log[request_count].skip, count)) < count
          /\ payment_links = remote
          /\ Cardinality({ payment_links[i] : i \in 1..Len(payment_links) })
                = Len(remote)

\* two full pages and a short one: the loop has returned after 3 requests
C1_Witness ==
    /\ fetch_result = "returned"
    /\ AllPagesOk
    /\ Len(remote) > 2 * count
    /\ request_count = 3
    /\ payment_links = remote

StageOrder == << "validate", "fetch", "normalize", "push" >>

\* C4: the stages of a run are entered in the order validate, fetch,
\* normalize, push, each at most once; a stage that fails ends the run
\* with status 1; nothing happens after the end of the run; the first
\* worksheet changes only when fetch and normalize have returned.
C4_StageOrder ==
    [][ /\ pc # "exit"
        /\ IsPrefix(stages', StageOrder)
        /\ (fetch_result' = "raised" \/ process_result' = "raised")
              => exit_status' = "1"
        /\ exit_status' = "1" => pc' = "exit"
        /\ sheet1' # sheet1 =>
              /\ stages = StageOrder
              /\ fetch_result = "returned"
              /\ process_result = "returned"
              /\ pc \in {"clear", "update"} ]_vars

\* normalize has failed: the run is over, push was never entered and the
\* worksheet is as it was
C4_Witness ==
    /\ pc = "exit"
    /\ exit_status = "1"
    /\ stages = << "validate", "fetch", "normalize" >>
    /\ process_result = "raised"
    /\ sheet1 = sheet0

\* C5: when the probe fails, fetch_all_payment_links has raised and no
\* page request was sent; with a key missing the probe was not sent either.
C5_ProbeFailsFast ==
    probe_outcome \notin {"none", "ok"} =>
        /\ fetch_result = "raised"
        /\ request_count = 0
        /\ page_log = <<>>
        /\ probes <= 1
        /\ probe_outcome = "missing_key" => probes = 0

\* the run has ended on a missing key
C5_Witness ==
    /\ probe_outcome = "missing_key"
    /\ exit_status = "1"
    /\ pc = "exit"

\* C6: a page request answered with a status other than 200 is the last
\* request of the run: fetch_all_payment_links has raised, main never got
\* the accumulated records, the run has ended with status 1 and the first
\* worksheet is as it was at the start.
C6_PageFailureAborts ==
    \A i \in 1..Len(page_log) :
        page_log[i].outcome = "non200" =>
            /\ i = Len(page_log)
            /\ fetch_result = "raised"
            /\ payment_links = <<>>
            /\ process_result = "none"
            /\ pc = "exit"
            /\ exit_status = "1"
            /\ sheet1 = sheet0

\* the second page request failed after a full first page
C6_Witness ==
    /\ Len(page_log) = 2
    /\ page_log[2].outcome = "non200"
    /\ Len(all_links) = count
    /\ exit_status = "1"

\* the rows of the links the try block accepts, in input order
ExpectedRows(links) ==
    LET good == SelectSeq(links, NormalizeOk)
    IN  [i \in 1..Len(good) |-> NormalizeRow(good[i])]

\* C7: whatever records the batch holds, process_payment_links returns, and
\* its rows are the rows of the well-formed records, in input order.
C7_SkipAndContinue ==
    process_result # "none" =>
        /\ process_result = "returned"
        /\ processed_data = <<HeaderRow>> \o ExpectedRows(payment_links)

\* C8: for any batch process_payment_links returns the header and one row
\* per record that was not skipped, every row as wide as the header (26).
C8_RowCount ==
    process_result # "none" =>
        /\ process_result = "returned"
        /\ processed_data[1] = HeaderRow
        /\ Len(processed_data) - 1 = Len(payment_links) - process_errors
        /\ Len(header) = 26
        /\ \A r \in 1..Len(processed_data) : Len(processed_data[r]) = Len(header)

(***************************************************************************)
(* Properties of the tab replacement and of the report script.             *)
(***************************************************************************)
\* C2: when a run has ended with status 0, a destination that held rows of
\* an earlier run holds exactly the header and the rows this run computed:
\* the first worksheet after a sync run, the 'Partial Payments' worksheet
\* after a report run, whatever the number of rows computed.
C2_NoStaleRows ==
    /\ (exit_status = "0" /\ Len(sheet0) > 1) => sheet1 = processed_data
    /\ (rexit_status = "0" /\ extract_result = "returned" /\ Len(tab0.grid) > 1) =>
          /\ tab_exists
          /\ tab_grid = GridOf(partial_payments)

\* C3: when update_google_sheet has completed, the first worksheet is
\* exactly the table of the call; when create_or_update_sheet_tab has
\* completed, the 'Partial Payments' worksheet exists and is exactly the
\* header and the rows of the call; whatever the worksheet held before.
C3_TabReplaced ==
    /\ (pc = "exit" /\ exit_status = "0") =>
          /\ sheet1 = processed_data
          /\ sheet1 = <<HeaderRow>> \o ExpectedRows(payment_links)
    /\ rpc = "summary" =>
          /\ tab_exists
          /\ tab_grid = GridOf(partial_payments)

\* a tab with two older rows, one of them wider than the table, replaced
\* by a table of one row
C3_Witness ==
    /\ rpc = "summary"
    /\ tab0.exists
    /\ Len(tab0.grid) = 3
    /\ Len(partial_payments.rows) = 1
    /\ Len(tab_grid) = 2

\* the hundredths of a numeric cell
Cents(cell) == IF cell.k = "int" THEN cell.n * 100 ELSE cell.u * 100 + cell.c

\* a row of the frame read has an amount paid strictly below its amount
\* and the status "created"
Qualifies(df, row) ==
    LET a == Cell(df, row, AmountCol(df))
        p == Cell(df, row, PaidCol(df))
        st == Cell(df, row, StatusCol(df))
    IN  /\ a.k \in {"int", "float"}
        /\ p.k \in {"int", "float"}
        /\ Cents(p) < Cents(a)
        /\ st.k = "str"
        /\ st.s = "created"

\* C9: the rows extract_partial_payments returns are exactly the rows of
\* the worksheet with amount paid < amount and status "created", each
\* once, with the id, amount, amount paid and status of the worksheet row.
C9_FilterPredicate ==
    extract_result = "returned" =>
        LET df == ReadFrame(sheet1)
            out == partial_payments
            Q == { r \in 1..Len(df.rows) : Qualifies(df, df.rows[r]) }
        IN  /\ Len(out.rows) = Cardinality(Q)
            /\ { out.rows[i].idx : i \in 1..Len(out.rows) } = { df.rows[r].idx : r \in Q }
            /\ \A i \in 1..Len(out.rows) :
                  LET src == df.rows[out.rows[i].idx + 1]
                  IN  \A col \in {"ID", AmountCol(df), PaidCol(df), StatusCol(df)} :
                         Cell(out, out.rows[i], col) = Cell(df, src, col)

\* of three rows one is kept, one is dropped for its status and one for
\* being fully paid
C9_Witness ==
    /\ extract_result = "returned"
    /\ Len(partial_payments.rows) = 1
    /\ LET df == ReadFrame(sheet1)
       IN  /\ Len(df.rows) = 3
           /\ \E r \in 1..3 : Cell(df, df.rows[r], StatusCol(df)) = JStr("paid")
           /\ \E r \in 1..3 : /\ Cell(df, df.rows[r], StatusCol(df)) = JStr("created")
                              /\ Cell(df, df.rows[r], AmountCol(df))
                                   = Cell(df, df.rows[r], PaidCol(df))

\* C10: extract_partial_payments applied to a worksheet that holds its own
\* output returns the same columns and the same rows in the same order.
C10_Idempotent ==
    reapply_result # "none" =>
        /\ reapply_result = "returned"
        /\ reapplied.columns = partial_payments.columns
        /\ ValueRows(reapplied) = ValueRows(partial_payments)

\* C11: the rows extract_partial_payments returns are in descending order
\* of due, and two rows with equal due keep the relative order they had
\* in the worksheet (the sort is stable).
C11_StableSort ==
    extract_result = "returned" =>
        LET out == partial_payments
            n == Len(out.rows)
            d(i) == Cell(out, out.rows[i], due_col)
        IN  \A i, j \in 1..n :
               i < j => /\ ~Less(d(i), d(j))
                        /\ d(i) = d(j) => out.rows[i].idx < out.rows[j].idx

\* the counts of the per-currency totals of a summary, added up
RECURSIVE SumCurrencyCounts(_, _)
SumCurrencyCounts(by_currency, S) ==
    IF S = {} THEN 0
    ELSE LET cur == CHOOSE c \in S : TRUE
         IN  by_currency[cur].total.count + SumCurrencyCounts(by_currency, S \ {cur})

\* the amounts of the per-currency totals of a summary, added up, in
\* hundredths
RECURSIVE SumCurrencyCents(_, _)
SumCurrencyCents(by_currency, S) ==
    IF S = {} THEN 0
    ELSE LET cur == CHOOSE c \in S : TRUE
         IN  Cents(by_currency[cur].total.amount)
               + SumCurrencyCents(by_currency, S \ {cur})

\* total = july + other, in count and in amount
Splits(b) ==
    /\ b.total.count = b.july.count + b.other.count
    /\ Cents(b.total.amount) = Cents(b.july.amount) + Cents(b.other.amount)

SheetColumns == [i \in 1..Len(sheet1[1]) |-> sheet1[1][i].s]

\* the column a semantic role resolves to: the exactly named one when the
\* header has it, else the first whose lowercased name passes the test of
\* the role, else none ("")
Resolved(cols, exact, role) ==
    LET passes(col) ==
            CASE role = "amount" -> LowerContains(col, "amount") /\ ~LowerContains(col, "paid")
              [] role = "paid" -> LowerContains(col, "amount") /\ LowerContains(col, "paid")
              [] role = "status" -> LowerContains(col, "status")
        found == { i \in 1..Len(cols) : passes(cols[i]) }
    IN  IF \E i \in 1..Len(cols) : cols[i] = exact THEN exact
        ELSE IF found = {} THEN ""
        ELSE cols[CHOOSE i \in found : \A j \in found : i <= j]

\* C13: on a worksheet with data rows, extract_partial_payments takes for
\* amount, paid and status the exactly named column, else the first column
\* passing the substring test of the role, and filters on these columns;
\* when one of the three is not found it raises an error that lists the
\* columns of the worksheet, returns no table, and the run ends with
\* status 1 and the 'Partial Payments' worksheet untouched.
C13_ColumnResolution ==
    (extract_result # "none" /\ extract_error.kind # "other" /\ Len(sheet1) >= 2) =>
        LET cols == SheetColumns
            a == Resolved(cols, "Amount (₹)", "amount")
            p == Resolved(cols, "Amount Paid (₹)", "paid")
            st == Resolved(cols, "Status", "status")
            at(r, col) == sheet1[r + 1][CHOOSE i \in 1..Len(cols) : cols[i] = col]
            kept == { r \in 1..(Len(sheet1) - 1) :
                        /\ Cents(at(r, p)) < Cents(at(r, a))
                        /\ at(r, st) = JStr("created") }
        IN  IF "" \in {a, p, st}
            THEN /\ extract_result = "raised"
                 /\ extract_error.kind = "ValueError"
                 /\ extract_error.available = cols
                 /\ Len(extract_error.missing) = Cardinality({ x \in {"a", "p", "s"} :
                        \/ x = "a" /\ a = ""
                        \/ x = "p" /\ p = ""
                        \/ x = "s" /\ st = "" })
                 /\ partial_payments = NoFrame
                 /\ rpc = "exit"
                 /\ rexit_status = "1"
                 /\ tab_exists = tab0.exists
                 /\ tab_grid = tab0.grid
            ELSE /\ extract_result = "returned"
                 /\ partial_payments.columns = << "ID", a, p, due_col, "Currency", st >>
                 /\ { partial_payments.rows[i].idx + 1 :
                        i \in 1..Len(partial_payments.rows) } = kept
                 /\ \A i \in 1..Len(partial_payments.rows) :
                       LET row == partial_payments.rows[i]
                       IN  /\ Cents(row.c[2]) = Cents(at(row.idx + 1, a))
                           /\ Cents(row.c[3]) = Cents(at(row.idx + 1, p))
                           /\ row.c[6] = at(row.idx + 1, st)

\* the amount column was found by its substring although the header has no
\* "Amount (₹)", the paid column was not found: the error names it and
\* lists the columns, and the older rows of the tab are still there
C13_Witness ==
    /\ extract_result = "raised"
    /\ extract_error.kind = "ValueError"
    /\ extract_error.missing = << "Amount Paid (₹)" >>
    /\ extract_error.available = << "ID", "Payment Status", "Total Amount" >>
    /\ Len(sheet1) = 3
    /\ rexit_status = "1"
    /\ tab_exists
    /\ tab_grid = StaleTab(MaxStale)

\* after the email step of a run, the email not sent
AfterFailedEmail ==
    (summary.total.count > 0 /\ rpc \in {"csv", "exit"} /\ ~email_sent) =>
        /\ tab_exists
        /\ tab_grid = GridOf(partial_payments)
        /\ rpc = "csv" => rexit_status = "none" /\ csv_file = <<>>
        /\ rpc = "exit" =>
              \/ /\ rexit_status = "0"
                 /\ csv_file = GridOf(partial_payments)
                 /\ warned
              \/ /\ rexit_status = "1"
                 /\ csv_file = <<>>
                 /\ ~warned

\* C14: the email step never ends the run, whatever happens to the email:
\* the run goes on to the CSV export.  Once send_email_summary has failed,
\* the 'Partial Payments' worksheet already holds the table of the run;
\* when the export is done the file holds the table, the warning has been
\* printed and main returns 0 (it returns 1 only when the export itself
\* raised).
C14_EmailFailureNotFatal ==
    /\ []AfterFailedEmail
    /\ [][rpc = "email" => (rpc' = "csv" /\ rexit_status' = "none")]_vars

\* a run that ended with status 0, its table in the tab and in the CSV
\* file, the warning printed, the email not sent
C14_Witness ==
    /\ rpc = "exit"
    /\ rexit_status = "0"
    /\ summary.total.count > 0
    /\ ~email_sent
    /\ warned
    /\ Len(csv_file) = 3
    /\ tab_grid = csv_file

\* C15: every run of a script ends with main returning a status: 1 when a
\* step after the argument parsing raised (the conversion of --from_date
\* and --to_date included), the failure caught and logged by main, and 0
\* when the run completed.
C15_TopLevelCatch ==
    /\ pc = "exit" =>
          /\ exit_status \in {"0", "1"}
          /\ exit_status = "0" <=> (stages = StageOrder /\ sheet1 = processed_data)
    /\ rpc = "exit" => rexit_status \in {"0", "1"}

\* C16: the header write leaves the header row alone in the worksheet and
\* the data write is a later call; a run that fails at the data write,
\* after the header write, ends with status 1 and the worksheet holding
\* the header row only, and nothing changes the worksheet after the end
\* of the run.
C16_HeaderOnlyAfterFailure ==
    /\ [][(rpc = "tab_header" /\ rpc' = "tab_data") =>
             tab_grid' = <<HeaderCells(partial_payments)>>]_vars
    /\ [][(rpc = "tab_data" /\ rpc' = "exit") =>
             /\ rexit_status' = "1"
             /\ tab_exists'
             /\ tab_grid' = <<HeaderCells(partial_payments)>>
             /\ tab_grid' = tab_grid]_vars
    /\ [][rpc = "exit" => tab_grid' = tab_grid]_vars

\* a tab with two older rows, cleared, the header written, the data write
\* failed
C16_Witness ==
    /\ rpc = "exit"
    /\ rexit_status = "1"
    /\ tab0.exists
    /\ Len(tab0.grid) = 3
    /\ Len(partial_payments.rows) = 2
    /\ tab_grid = <<HeaderCells(partial_payments)>>

\* C17: when two runs have replaced the same worksheet, their clear and
\* write calls interleaved, the worksheet holds exactly the table (header
\* and rows) of the run whose last write came last.
C17_LastWriterWins ==
    /\ (other_pc = "done_sheet" /\ pc = "exit" /\ exit_status = "0") =>
          sheet1 = IF other_wrote_last THEN other_table ELSE processed_data
    /\ (other_pc = "done_tab" /\ rpc = "summary") =>
          tab_grid = IF other_wrote_last THEN other_table
                                         ELSE GridOf(partial_payments)

\* the number a sequence of letters stands for in bijective base 26, the
\* letters A .. Z being the digits 1 .. 26
RECURSIVE FromLetters(_)
FromLetters(letters) ==
    IF letters = <<>> THEN 0
    ELSE LET last == letters[Len(letters)]
             digit == CHOOSE d \in 1..26 : Alphabet[d] = last
         IN  26 * FromLetters(SubSeq(letters, 1, Len(letters) - 1)) + digit

\* C18: the name col_num_to_letter gives to a column number n >= 1 is a
\* non-empty sequence of letters A .. Z that stands for n in bijective base
\* 26, no other column number up to MaxCol has the same name, and 1, 26,
\* 27, 52, 702, 703 are named A, Z, AA, AZ, ZZ, AAA.
C18_ColumnLetters ==
    last_col_letter # <<>> =>
        /\ \A i \in 1..Len(last_col_letter) :
              \E d \in 1..26 : Alphabet[d] = last_col_letter[i]
        /\ FromLetters(last_col_letter) = num_cols
        /\ \A m \in 1..MaxCol : m # num_cols => col_num_to_letter(m) # last_col_letter
        /\ num_cols = 1 => last_col_letter = << "A" >>
        /\ num_cols = 26 => last_col_letter = << "Z" >>
        /\ num_cols = 27 => last_col_letter = << "A", "A" >>
        /\ num_cols = 52 => last_col_letter = << "A", "Z" >>
        /\ num_cols = 702 => last_col_letter = << "Z", "Z" >>
        /\ num_cols = 703 => last_col_letter = << "A", "A", "A" >>

\* the first column with a name of three letters
C18_Witness ==
    /\ num_cols = 703
    /\ last_col_letter = << "A", "A", "A" >>

\* the one payment link given to the normalizer and the row made of it
TheLink == payment_links[1]
TheRow == processed_data[2]

\* the minor-unit value the loop reads for a monetary field
MinorOf(f) == Get(TheLink, f, JInt(0)).n

\* the cell of a monetary field is the float minor / 100, a whole number
\* when minor is a multiple of 100
IsMinorBy100(cell, minor) ==
    /\ cell.k = "float"
    /\ cell.c \in 0..99
    /\ Cents(cell) = minor
    /\ minor % 100 = 0 => cell = JFloat(minor \div 100, 0)

\* C19: every monetary field of a normalized row (amount, amount paid,
\* first minimum partial amount) is the minor-unit value of the link
\* divided by 100, exactly value/100 for a multiple of 100, and no monetary
\* field of a produced row is negative.
C19_MonetaryFields ==
    (process_result = "returned" /\ Len(processed_data) = 2) =>
        \A f \in MoneyFields :
            /\ IsMinorBy100(TheRow[FieldColumn[f]], MinorOf(f))
            /\ Cents(TheRow[FieldColumn[f]]) >= 0

\* C19 as amended: every monetary field of a normalized row is the
\* minor-unit value of the link divided by 100, exactly value/100 for a
\* multiple of 100, and it is negative exactly when the minor-unit value is.
C19_MonetaryFieldsBySign ==
    (process_result = "returned" /\ Len(processed_data) = 2) =>
        \A f \in MoneyFields :
            /\ IsMinorBy100(TheRow[FieldColumn[f]], MinorOf(f))
            /\ Cents(TheRow[FieldColumn[f]]) < 0 <=> MinorOf(f) < 0

\* a link with an amount of 150000 minor units got the amount 1500.0
C19_Witness ==
    /\ process_result = "returned"
    /\ Len(processed_data) = 2
    /\ "amount" \in DOMAIN TheLink.f
    /\ TheLink.f["amount"] = JInt(150000)
    /\ TheRow[FieldColumn["amount"]] = JFloat(1500, 0)

\* the cells of the row that field f fills have their defaults; the
\* default of the status is statusDefault
HasDefault(f, statusDefault) ==
    CASE f \in TimeFields -> TheRow[FieldColumn[f]] = JStr("")
      [] f \in MoneyFields -> TheRow[FieldColumn[f]] = JFloat(0, 0)
      [] f \in FlagFields -> TheRow[FieldColumn[f]] = JStr("No")
      [] f = "customer" -> TheRow[15] = JStr("") /\ TheRow[16] = JStr("")
      [] f = "payments" -> TheRow[24] = JInt(0) /\ TheRow[25] = JStr("")
      [] f = "status" -> TheRow[FieldColumn[f]] = JStr(statusDefault)
      [] OTHER -> TheRow[FieldColumn[f]] = JStr("")

\* the link is not skipped, its row has the columns of the header, every
\* absent field has its default and every timestamp that is absent, null
\* or 0 is the empty string
TotalOverAbsent(statusDefault) ==
    process_result # "none" =>
        /\ process_result = "returned"
        /\ process_errors = 0
        /\ Len(processed_data) = 2
        /\ Len(TheRow) = Len(header)
        /\ \A f \in LinkFields \ DOMAIN TheLink.f : HasDefault(f, statusDefault)
        /\ \A f \in TimeFields :
              Get(TheLink, f, JNull) \in {JNull, JInt(0)} =>
                  TheRow[FieldColumn[f]] = JStr("")

\* C20: for a link that is a mapping with any subset of the fields absent
\* a row is produced, with the empty string for text and customer fields,
\* 0 for monetary fields and the payments count, 'No' for flags, the empty
\* string for payment details and notes, and every timestamp that is
\* missing, null or 0 is the empty string.
C20_TotalOverAbsent == TotalOverAbsent("")

\* C20 as amended: the same, except that an absent status is rendered as
\* 'unknown'.
C20_TotalOverAbsentStatusUnknown == TotalOverAbsent("unknown")

\* a link whose only field is a created_at of 0 got a row with an empty
\* creation time
C20_Witness ==
    /\ process_result = "returned"
    /\ Len(processed_data) = 2
    /\ DOMAIN TheLink.f = {"created_at"}
    /\ TheLink.f["created_at"] = JInt(0)
    /\ TheRow[FieldColumn["created_at"]] = JStr("")

\* whether a reference id of the tables starts with "July"
RefStartsWithJuly ==
    ("July-batch" :> TRUE) @@ ("July2024-7" :> TRUE) @@ ("Aug-batch" :> FALSE)
      @@ ("july-lower" :> FALSE) @@ ("Mid-July" :> FALSE)

\* row r of the report is a July row
IsJulyRow(r) ==
    /\ "Reference ID" \in Range(partial_payments.columns)
    /\ RefStartsWithJuly[Cell(partial_payments, partial_payments.rows[r], "Reference ID").s]

\* the currency row r of the report is counted under
CurrencyOfRow(r) ==
    IF "Currency" \in Range(partial_payments.columns)
    THEN Cell(partial_payments, partial_payments.rows[r], "Currency")
    ELSE JStr("INR")

\* the due amounts of the rows S of the report, added up, in hundredths
RECURSIVE DueCentsOver(_)
DueCentsOver(S) ==
    IF S = {} THEN 0
    ELSE LET r == CHOOSE x \in S : TRUE
         IN  Cents(Cell(partial_payments, partial_payments.rows[r], due_col))
               + DueCentsOver(S \ {r})

\* a bucket of the summary counts exactly the rows S
CountsRows(bucket, S) ==
    /\ bucket.count = Cardinality(S)
    /\ Cents(bucket.amount) = DueCentsOver(S)

\* C21: generate_summary counts each row of the report in exactly one of
\* 'july' (its reference id starts with "July", case-sensitive) and 'other'
\* (every other row), in the grand total and in the bucket of its own
\* currency; the currencies of the summary are those of the rows, and the
\* single currency "INR" when the table has no currency column.
C21_Partition ==
    rpc = "email" =>
        LET rows == 1..Len(partial_payments.rows)
            july == { r \in rows : IsJulyRow(r) }
        IN  /\ CountsRows(summary.total, rows)
            /\ CountsRows(summary.july, july)
            /\ CountsRows(summary.other, rows \ july)
            /\ DOMAIN summary.by_currency = { CurrencyOfRow(r) : r \in rows }
            /\ \A cur \in DOMAIN summary.by_currency :
                  LET of == { r \in rows : CurrencyOfRow(r) = cur }
                  IN  /\ CountsRows(summary.by_currency[cur].total, of)
                      /\ CountsRows(summary.by_currency[cur].july, of \cap july)
                      /\ CountsRows(summary.by_currency[cur].other, of \ july)

\* a summary of three rows in one currency: one whose reference id starts
\* with "July", one where it starts with "july" and one where "July" comes
\* later
C21_Witness ==
    /\ rpc = "email"
    /\ Len(partial_payments.rows) = 3
    /\ "Reference ID" \in Range(partial_payments.columns)
    /\ { Cell(partial_payments, partial_payments.rows[r], "Reference ID").s : r \in 1..3 }
          = {"July2024-7", "july-lower", "Mid-July"}
    /\ summary.july.count = 1
    /\ summary.other.count = 2

\* a record is twice in the sequence
HasDuplicate(seq) == \E i, j \in 1..Len(seq) : i # j /\ seq[i] = seq[j]

\* the links that were in the account during the whole fetch: those in it
\* now that were not created meanwhile
PresentThroughout == Range(remote) \ inserted

\* C22: the sequence the fetch returns has no record twice and every record
\* that was in the collection throughout when the collection did not change
\* between the page requests; a record created or deleted between two page
\* requests can make it hold a record twice or lack a record that was there
\* throughout.
C22_DependsOnUnchangedRemote ==
    (fetch_result = "returned" /\ AllPagesOk /\ inserted = {} /\ removed = {}) =>
        /\ ~HasDuplicate(all_links)
        /\ PresentThroughout \subseteq Range(all_links)
        /\ all_links = remote

\* a fetch of three pages, a link created ahead of the offset after the
\* first page and two deleted after the second: the sequence returned
\* holds one record twice and lacks a record that was there throughout
C22_Witness ==
    /\ fetch_result = "returned"
    /\ AllPagesOk
    /\ request_count = 3
    /\ Cardinality(inserted) = 1
    /\ Cardinality(removed) = 2
    /\ HasDuplicate(all_links)
    /\ \E link \in PresentThroughout : link \notin Range(all_links)

\* the ValueError of extract_partial_payments on a frame without columns
NoColumnsError ==
    [ kind |-> "ValueError",
      missing |-> << "Amount (₹)", "Amount Paid (₹)", "Status" >>,
      available |-> <<>> ]

\* the sync run has fetched no payment link and has ended with status 0
SyncedNothing ==
    /\ pc = "exit"
    /\ exit_status = "0"
    /\ payment_links = <<>>

\* C23: a sync run that fetches no payment link leaves the first worksheet
\* with the header row alone and ends with status 0; the extraction of a
\* report run on that worksheet finds no column, raises the error naming
\* the three required columns (or fails earlier), and the report run ends
\* with status 1; it never ends with status 0 once it has connected.
C23_HeaderOnlySheetFailsReport ==
    SyncedNothing =>
        /\ sheet1 = << HeaderRow >>
        /\ extract_result # "none" =>
              /\ extract_result = "raised"
              /\ extract_error \in {NoColumnsError, OtherError}
              /\ rpc = "exit"
              /\ rexit_status = "1"
        /\ (rpc = "exit" /\ rexit_status = "0") => extract_result = "none"
        /\ rpc \in {"parse_args", "connect", "extract", "exit"}

\* the report run after a sync run of an empty account has ended with
\* status 1 on the missing columns
C23_Witness ==
    /\ SyncedNothing
    /\ remote = <<>>
    /\ sheet1 = << HeaderRow >>
    /\ extract_error = NoColumnsError
    /\ rpc = "exit"
    /\ rexit_status = "1"

\* C24: update_google_sheet clears the first worksheet, which is empty from
\* then on until the one update that writes the header and the rows
\* together; a run that fails at that update leaves the worksheet empty,
\* without the rows it held before and without a header, and nothing is
\* written to the worksheet after the end of the run.
C24_EmptyAfterFailedUpdate ==
    /\ [](pc = "update" => sheet1 = <<>>)
    /\ [][(pc = "clear" /\ pc' = "update") => sheet1' = <<>>]_vars
    /\ [][(pc = "update" /\ exit_status' = "1") => (pc' = "exit" /\ sheet1' = <<>>)]_vars
    /\ [][(pc = "update" /\ exit_status' = "0") => sheet1' = processed_data]_vars
    /\ [][pc = "exit" => sheet1' = sheet1]_vars
    /\ []((pc = "exit" /\ exit_status = "1") => sheet1 \in {sheet0, <<>>})

\* a run on a worksheet that held a header and rows has failed after its
\* clear: the worksheet is empty
C24_Witness ==
    /\ pc = "exit"
    /\ exit_status = "1"
    /\ Len(sheet0) > 1
    /\ process_result = "returned"
    /\ Len(processed_data) > 1
    /\ sheet1 = <<>>

\* the cell is a number as get_all_records gives it
IsNumber(cell) == cell.k \in {"int", "float"}

\* C25: every row extract_partial_payments returns has a due amount above
\* 0 that is its amount less its amount paid, and comes from a worksheet
\* row whose amount and amount-paid cells are numbers: a row with a cell
\* coerced to not-a-number is never returned.
C25_DuePositive ==
    extract_result = "returned" =>
        LET df == ReadFrame(sheet1)
            out == partial_payments
        IN  \A i \in 1..Len(out.rows) :
               LET row == out.rows[i]
                   src == df.rows[row.idx + 1]
                   due == Cell(out, row, due_col)
               IN  /\ IsNumber(Cell(df, src, AmountCol(df)))
                   /\ IsNumber(Cell(df, src, PaidCol(df)))
                   /\ due.k = "float"
                   /\ Cents(due) > 0
                   /\ Cents(due) = Cents(Cell(df, src, AmountCol(df)))
                                     - Cents(Cell(df, src, PaidCol(df)))
                   /\ Cents(due) = Cents(Cell(out, row, AmountCol(df)))
                                     - Cents(Cell(out, row, PaidCol(df)))

\* of two rows, the one with a text in its amount-paid cell was left out
\* and the other one was returned with its due amount
C25_Witness ==
    /\ extract_result = "returned"
    /\ Len(sheet1) = 3
    /\ sheet1[2][5] = JStr("n/a")
    /\ sheet1[2][4] = JFloat(1500, 0)
    /\ Len(partial_payments.rows) = 1
    /\ partial_payments.rows[1].idx = 1
    /\ Cell(partial_payments, partial_payments.rows[1], due_col) = JFloat(1000, 0)

====
